---- MODULE Spec2Model ----
(***************************************************************************)
(* sus-client: the page-fetch pipeline of src/src/magic.rs (coordinator,   *)
(* thread pool, page workers, staging files) and its merge engine          *)
(* (State::merge_posts, State::merge, update_post_line_with_put_delete),   *)
(* with the entry point `sync` of src/src/lib.rs.                          *)
(*                                                                         *)
(* Text.  A String is a sequence of tokens; "," is the token the code      *)
(* splits on, every other token stands for a run of characters without a   *)
(* comma or newline.  A file of lines is a sequence of Strings.            *)
(* Option<T> is a set with at most one element.                            *)
(***************************************************************************)
EXTENDS Integers, Sequences, FiniteSets, TLC

---------------------------------------------------------------------------
(* Bounds of the model.                                                    *)

\* largest total_pages the metadata may report
MaxPages == 2
\* largest num_workers handed to the coordinator
MaxWorkers == 2
\* uuids are "1" .. MaxUuid
MaxUuid == 2
\* largest number of mutations the service holds for one run
MaxMut == 2
\* steps of the run that the environment may make fail (I/O errors)
MaxFaults == 1
\* total_pages of the runs in which a page without records lies between
\* pages with records
ManyPages == 3

---------------------------------------------------------------------------
(* Option, strings, lines.                                                 *)

None == {}
Some(x) == {x}
IsSome(o) == o # {}
Unwrap(o) == CHOOSE x \in o : TRUE

Comma == ","
Digits == <<"0", "1", "2", "3", "4", "5", "6", "7", "8", "9">>

\* byte order of the tokens that occur in sort keys
Rank(tok) == CHOOSE i \in 1..Len(Digits) : Digits[i] = tok

\* i32::to_string
RECURSIVE Decimal(_)
Decimal(n) ==
    IF n < 0 THEN <<"-">> \o Decimal(0 - n)
    ELSE IF n < 10 THEN <<Digits[n + 1]>>
    ELSE Decimal(n \div 10) \o <<Digits[(n % 10) + 1]>>

\* str::split(','): the fields between the commas, a trailing comma giving
\* a last empty field
RECURSIVE Split(_)
Split(s) ==
    IF \A i \in 1..Len(s) : s[i] # Comma THEN <<s>>
    ELSE LET k == CHOOSE i \in 1..Len(s) :
                      s[i] = Comma /\ \A j \in 1..(i - 1) : s[j] # Comma
         IN  <<SubSeq(s, 1, k - 1)>> \o Split(SubSeq(s, k + 1, Len(s)))

\* [String]::join(",")
RECURSIVE Join(_)
Join(parts) ==
    IF Len(parts) = 0 THEN <<>>
    ELSE IF Len(parts) = 1 THEN parts[1]
    ELSE parts[1] \o <<Comma>> \o Join(Tail(parts))

\* line.split(',').next().unwrap(): the sort key of a line
Key(line) == Split(line)[1]
\* line.split(',').last().unwrap()
LastField(line) == LET f == Split(line) IN f[Len(f)]

\* &str < &str: lexicographic on bytes
RECURSIVE StrLt(_, _)
StrLt(a, b) ==
    IF Len(b) = 0 THEN FALSE
    ELSE IF Len(a) = 0 THEN TRUE
    ELSE IF a[1] = b[1] THEN StrLt(Tail(a), Tail(b))
    ELSE Rank(a[1]) < Rank(b[1])

\* CompleteMessage::into_csv_row
into_csv_row(post) ==
    post.uuid \o <<Comma>> \o post.author \o <<Comma>> \o post.message
        \o <<Comma>> \o Decimal(post.likes) \o <<Comma>>
        \o (IF IsSome(post.image) THEN Unwrap(post.image) ELSE <<>>)

\* ReadResultLine::new
ReadResultLine(line) ==
    [line |-> line, updated |-> FALSE, mark_for_deletion |-> FALSE]

\* bincode::serialize of a Vec: the length, then the elements
Encode(v) == <<Len(v)>> \o v
\* bincode::deserialize_from: None when the bytes are not a whole Vec
Decode(bytes) ==
    IF Len(bytes) = 0 THEN None
    ELSE IF Len(bytes) # bytes[1] + 1 THEN None
    ELSE Some(Tail(bytes))

---------------------------------------------------------------------------
(* Mutation Patch Applier.                                                 *)

Min(S) == CHOOSE x \in S : \A y \in S : x <= y

\* What State::update_post_line_with_put_delete leaves behind: its three
\* &mut arguments, the set puts_deletes_file_numbers, whether an unwrap
\* failed (panic) and whether the guard of the set was alive then (poison).
Applied(su, q, rl, nums, panic, poison) ==
    [ should_update_results |-> su, puts_deletes |-> q, result_line |-> rl,
      nums |-> nums, panic |-> panic, poison |-> poison ]

\* LoadUpdates without line 490: an empty set leaves should_update_results
\* as it is.  C23 tells this from LoadUpdates.
LoadUpdatesNoLatch(q, rl, nums, files, poisoned) ==
    IF Len(q) # 0 THEN Applied(TRUE, q, rl, nums, FALSE, FALSE)
    ELSE IF poisoned THEN Applied(TRUE, q, rl, nums, TRUE, FALSE)
    ELSE IF nums = {} THEN Applied(TRUE, q, rl, nums, FALSE, FALSE)
    ELSE LET n == Min(nums) IN
         IF IsSome(files[n]) /\ IsSome(Decode(Unwrap(files[n])))
         THEN Applied(TRUE, Unwrap(Decode(Unwrap(files[n]))), rl,
                      nums \ {n}, FALSE, FALSE)
         ELSE Applied(TRUE, q, rl, nums \ {n}, TRUE, TRUE)

\* lines 478-493: load more put and delete updates.  nums is
\* puts_deletes_file_numbers, files the staging mutation files by page
\* number, poisoned whether the mutex of the set is poisoned.  The guard of
\* the set is alive while the file is opened and decoded, so a failure
\* there poisons the mutex.
LoadUpdates(q, rl, nums, files, poisoned) ==
    IF Len(q) # 0 THEN Applied(TRUE, q, rl, nums, FALSE, FALSE)
    ELSE IF poisoned THEN Applied(TRUE, q, rl, nums, TRUE, FALSE)
    ELSE IF nums = {} THEN Applied(FALSE, q, rl, nums, FALSE, FALSE)
    ELSE LET n == Min(nums) IN
         IF IsSome(files[n]) /\ IsSome(Decode(Unwrap(files[n])))
         THEN Applied(TRUE, Unwrap(Decode(Unwrap(files[n]))), rl,
                      nums \ {n}, FALSE, FALSE)
         ELSE Applied(TRUE, q, rl, nums \ {n}, TRUE, TRUE)

\* PutLine without lines 525-527: a put update without an image leaves the
\* image field empty.  C9 tells this from PutLine.
PutLineWithoutOldImage(update, line) ==
    Join(<< update.uuid, Unwrap(update.put).author,
            Unwrap(update.put).message, Decimal(Unwrap(update.put).likes),
            IF IsSome(Unwrap(update.put).image)
            THEN Unwrap(Unwrap(update.put).image) ELSE <<>> >>)

\* lines 515-530: the line rebuilt from a put update; the image of the
\* update when it has one, else the last field of the old line
PutLine(update, line) ==
    Join(<< update.uuid, Unwrap(update.put).author,
            Unwrap(update.put).message, Decimal(Unwrap(update.put).likes),
            IF IsSome(Unwrap(update.put).image)
            THEN Unwrap(Unwrap(update.put).image)
            ELSE LastField(line) >>)

\* ApplyFront without line 499: the update that is not the one we want is
\* not pushed back.  C24 tells this from ApplyFront.
ApplyFrontDropping(load, update, rest, rl) ==
    IF update.uuid # Key(rl.line) THEN [load EXCEPT !.puts_deletes = rest]
    ELSE IF update.delete
    THEN [load EXCEPT !.puts_deletes = rest,
                      !.result_line = [rl EXCEPT !.updated = TRUE,
                                                 !.mark_for_deletion = TRUE]]
    ELSE IF ~IsSome(update.put)
    THEN [load EXCEPT !.puts_deletes = rest,
                      !.result_line = [rl EXCEPT !.updated = TRUE],
                      !.panic = TRUE]
    ELSE [load EXCEPT !.puts_deletes = rest,
                      !.result_line = [rl EXCEPT !.updated = TRUE,
                                                 !.line = PutLine(update, @)]]

\* lines 495-532: the update popped from the front of puts_deletes
ApplyFront(load, update, rest, rl) ==
    \* lines 497-501: not the update we want, push it back
    IF update.uuid # Key(rl.line) THEN load
    \* lines 506-510: a delete update
    ELSE IF update.delete
    THEN [load EXCEPT !.puts_deletes = rest,
                      !.result_line = [rl EXCEPT !.updated = TRUE,
                                                 !.mark_for_deletion = TRUE]]
    \* line 515: update.put.unwrap()
    ELSE IF ~IsSome(update.put)
    THEN [load EXCEPT !.puts_deletes = rest,
                      !.result_line = [rl EXCEPT !.updated = TRUE],
                      !.panic = TRUE]
    ELSE [load EXCEPT !.puts_deletes = rest,
                      !.result_line = [rl EXCEPT !.updated = TRUE,
                                                 !.line = PutLine(update, @)]]

\* line 495: if let Some(update) = puts_deletes.pop_front()
ApplyUpdates(load, rl) ==
    IF load.panic \/ Len(load.puts_deletes) = 0 THEN load
    ELSE ApplyFront(load, Head(load.puts_deletes), Tail(load.puts_deletes), rl)

\* State::update_post_line_with_put_delete(should_update_results,
\* puts_deletes, result_line)
update_post_line_with_put_delete(su, q, rl, nums, files, poisoned) ==
    IF ~su THEN Applied(su, q, rl, nums, FALSE, FALSE)
    ELSE ApplyUpdates(LoadUpdates(q, rl, nums, files, poisoned), rl)

---------------------------------------------------------------------------
(* Readers and writers.                                                    *)

\* BufReader<File>::lines().next() on the file `content`, read up to line
\* pos, with buf the lines already in the reader's buffer: an empty buffer is
\* refilled with what the file holds beyond pos at that moment.
ReaderNext(content, pos, buf) ==
    LET got == IF Len(buf) # 0 THEN buf
               ELSE SubSeq(content, pos + 1, Len(content))
        at  == IF Len(buf) # 0 THEN pos
               ELSE IF Len(content) > pos THEN Len(content) ELSE pos
    IN  IF Len(got) = 0 THEN [line |-> None, pos |-> at, buf |-> <<>>]
        ELSE [line |-> Some(Head(got)), pos |-> at, buf |-> Tail(got)]

\* BufWriter<File> flushed on a file opened with write(true).create(true):
\* no truncate, no append, so the buffered lines land at offset 0 over what
\* the file holds and the rest of the file stays.  (Lines are the unit of
\* the overlay: the records of the model have one length.)
Overlay(content, buf) ==
    IF Len(buf) >= Len(content) THEN buf
    ELSE buf \o SubSeq(content, Len(buf) + 1, Len(content))

\* the locals of State::merge / State::merge_posts of one task
NoMerge ==
    [ w_ino |-> 0, w_buf |-> <<>>,
      r_ino |-> 0, r_pos |-> 0, r_buf |-> <<>>,
      puts_deletes |-> <<>>, should_update_results |-> FALSE,
      cached_posts_reader |-> <<>>,
      read_cached_post |-> None, read_result |-> None,
      panicking |-> FALSE ]

---------------------------------------------------------------------------
(* Merge Engine: the bodies of the loops of State::merge as operators over *)
(* the locals (mg) and the shared state they read and pop.                 *)

\* WriteUnlessDeleted without the test of mark_for_deletion.  C10 tells
\* this from WriteUnlessDeleted.
WriteThoughDeleted(mg, rl) == [mg EXCEPT !.w_buf = Append(@, rl.line)]

\* lines 316-318, 395-397, 406-408, 421-423, 460-462:
\* writeln!(final_writer, line) unless the line is marked for deletion
WriteUnlessDeleted(mg, rl) ==
    IF rl.mark_for_deletion THEN mg
    ELSE [mg EXCEPT !.w_buf = Append(@, rl.line)]

\* lines 436-442: after the loop, the buffered cached post line and the
\* rest of the cached post file that is open (the files still in
\* posts_file_numbers are not opened here)
AfterLoop(mg) ==
    [mg EXCEPT !.w_buf = @ \o (IF IsSome(mg.read_cached_post)
                               THEN <<Unwrap(mg.read_cached_post)>> ELSE <<>>)
                           \o mg.cached_posts_reader,
               !.read_cached_post = None,
               !.cached_posts_reader = <<>>]

\* a comparison that keeps the result line for the next turn whether or not
\* it is marked for deletion.  C36 tells this from Compare.
CompareKeepingDeleted(mg, rl, cached_post_line) ==
    IF StrLt(Key(rl.line), Key(cached_post_line))
    THEN [WriteUnlessDeleted(mg, rl) EXCEPT
              !.read_cached_post = Some(cached_post_line)]
    ELSE [mg EXCEPT !.w_buf = Append(@, cached_post_line),
                    !.read_result = Some(rl)]

\* lines 416-433: write the smaller line, keep the other for the next turn
Compare(mg, rl, cached_post_line) ==
    IF StrLt(Key(rl.line), Key(cached_post_line))
    THEN [WriteUnlessDeleted(mg, rl) EXCEPT
              !.read_cached_post = Some(cached_post_line)]
    ELSE [mg EXCEPT !.w_buf = Append(@, cached_post_line),
                    !.read_result = IF rl.mark_for_deletion THEN None
                                    ELSE Some(rl)]

\* What one turn of a loop of State::merge leaves behind: the locals, the
\* two registries, where the task goes next ("loop", "drain", "rename" or
\* "panic") and whether the mutex of puts_deletes_file_numbers is poisoned.
Turned(mg, exit, nums, post_nums, poison) ==
    [mg |-> mg, exit |-> exit, nums |-> nums, post_nums |-> post_nums,
     poison |-> poison]

\* NextCachedPost without lines 406-408: when no cached post file is left
\* the loop is left without writing the result line.  C25 tells this from
\* NextCachedPost.
NextCachedPostLosing(mg, rl, up, post_nums, postfiles) ==
    IF IsSome(mg.read_cached_post)
    THEN Turned(Compare([mg EXCEPT !.read_cached_post = None], rl,
                        Unwrap(mg.read_cached_post)),
                "loop", up.nums, post_nums, up.poison)
    ELSE IF Len(mg.cached_posts_reader) # 0
    THEN Turned(Compare([mg EXCEPT !.cached_posts_reader = Tail(@)], rl,
                        Head(mg.cached_posts_reader)),
                "loop", up.nums, post_nums, up.poison)
    ELSE IF post_nums = {}
    THEN Turned(AfterLoop(mg), "drain", up.nums, post_nums, up.poison)
    ELSE IF ~IsSome(postfiles[Min(post_nums)])
    THEN Turned(mg, "panic", up.nums, post_nums \ {Min(post_nums)}, up.poison)
    ELSE IF Len(Unwrap(postfiles[Min(post_nums)])) = 0
    THEN Turned(AfterLoop(WriteUnlessDeleted(mg, rl)), "drain", up.nums,
                post_nums \ {Min(post_nums)}, up.poison)
    ELSE Turned(Compare([mg EXCEPT !.cached_posts_reader =
                                      Tail(Unwrap(postfiles[Min(post_nums)]))],
                        rl, Head(Unwrap(postfiles[Min(post_nums)]))),
                "loop", up.nums, post_nums \ {Min(post_nums)}, up.poison)

\* lines 370-434: the cached post line to compare the result line rl with;
\* when the open file is at its end, the next registered file (lines
\* 376-401), and when there is none (lines 403-410) or it has no line
\* (lines 393-400) the result line is written and the loop is left, which
\* runs lines 436-442
NextCachedPost(mg, rl, up, post_nums, postfiles) ==
    IF IsSome(mg.read_cached_post)
    THEN Turned(Compare([mg EXCEPT !.read_cached_post = None], rl,
                        Unwrap(mg.read_cached_post)),
                "loop", up.nums, post_nums, up.poison)
    ELSE IF Len(mg.cached_posts_reader) # 0
    THEN Turned(Compare([mg EXCEPT !.cached_posts_reader = Tail(@)], rl,
                        Head(mg.cached_posts_reader)),
                "loop", up.nums, post_nums, up.poison)
    ELSE IF post_nums = {}
    THEN Turned(AfterLoop(WriteUnlessDeleted(mg, rl)), "drain", up.nums,
                post_nums, up.poison)
    ELSE IF ~IsSome(postfiles[Min(post_nums)])
    THEN Turned(mg, "panic", up.nums, post_nums \ {Min(post_nums)}, up.poison)
    ELSE IF Len(Unwrap(postfiles[Min(post_nums)])) = 0
    THEN Turned(AfterLoop(WriteUnlessDeleted(mg, rl)), "drain", up.nums,
                post_nums \ {Min(post_nums)}, up.poison)
    ELSE Turned(Compare([mg EXCEPT !.cached_posts_reader =
                                      Tail(Unwrap(postfiles[Min(post_nums)]))],
                        rl, Head(Unwrap(postfiles[Min(post_nums)]))),
                "loop", up.nums, post_nums \ {Min(post_nums)}, up.poison)

\* lines 364-368: the result line after update_post_line_with_put_delete
Patched(mg, up, post_nums, postfiles) ==
    IF up.panic
    THEN Turned([mg EXCEPT !.should_update_results = up.should_update_results,
                           !.puts_deletes = up.puts_deletes],
                "panic", up.nums, post_nums, up.poison)
    ELSE NextCachedPost(
             [mg EXCEPT !.should_update_results = up.should_update_results,
                        !.puts_deletes = up.puts_deletes],
             up.result_line, up, post_nums, postfiles)

\* PatchOnce without the test of line 363: every result line is passed to
\* the applier, also one that was updated before it was buffered.  C27
\* tells this from PatchOnce.
PatchAlways(mg, rl, nums, files, poisoned, post_nums, postfiles) ==
    Patched(mg,
            update_post_line_with_put_delete(
                mg.should_update_results, mg.puts_deletes, rl, nums,
                files, poisoned),
            post_nums, postfiles)

\* lines 362-368: a line that was updated before it was buffered is not
\* updated again; the applier is called once, `up` is what it leaves
PatchOnce(mg, rl, nums, files, poisoned, post_nums, postfiles) ==
    CHOOSE r \in
        { Patched(mg, up, post_nums, postfiles) :
            up \in { IF rl.updated
                     THEN Applied(mg.should_update_results, mg.puts_deletes,
                                  rl, nums, FALSE, FALSE)
                     ELSE update_post_line_with_put_delete(
                              mg.should_update_results, mg.puts_deletes, rl,
                              nums, files, poisoned) } } : TRUE

\* lines 347-360: the next old result line from results_reader; at the end
\* of the file the loop is left, which runs lines 436-442
ReadTurn(mg, rd, nums, files, poisoned, post_nums, postfiles) ==
    IF ~IsSome(rd.line)
    THEN Turned(AfterLoop([mg EXCEPT !.r_pos = rd.pos, !.r_buf = rd.buf]),
                "drain", nums, post_nums, FALSE)
    ELSE PatchOnce([mg EXCEPT !.r_pos = rd.pos, !.r_buf = rd.buf],
                   ReadResultLine(Unwrap(rd.line)), nums, files, poisoned,
                   post_nums, postfiles)

\* lines 344-442: one turn of the loop.  content is the file behind
\* results_reader, nums and files the mutation registry and files,
\* post_nums and postfiles the record registry and files.
MergeIter(mg, content, nums, files, poisoned, post_nums, postfiles) ==
    IF IsSome(mg.read_result)
    THEN PatchOnce([mg EXCEPT !.read_result = None], Unwrap(mg.read_result),
                   nums, files, poisoned, post_nums, postfiles)
    ELSE CHOOSE r \in
             { ReadTurn(mg, rd, nums, files, poisoned, post_nums, postfiles) :
                 rd \in { ReaderNext(content, mg.r_pos, mg.r_buf) } } : TRUE

\* lines 450-452 and 460-462: the patched line is written unless deleted
DrainWrite(mg, up) ==
    Turned(IF up.panic
           THEN [mg EXCEPT !.should_update_results = up.should_update_results,
                           !.puts_deletes = up.puts_deletes]
           ELSE WriteUnlessDeleted(
                    [mg EXCEPT !.should_update_results =
                                   up.should_update_results,
                               !.puts_deletes = up.puts_deletes],
                    up.result_line),
           IF up.panic THEN "panic" ELSE "drain", up.nums, {}, up.poison)

\* a drain that copies the remaining old result lines as they are, without
\* a look at the mutations.  C35 tells this from DrainRead.
DrainReadUnpatched(mg, rd, nums, files, poisoned) ==
    IF ~IsSome(rd.line)
    THEN Turned([mg EXCEPT !.r_pos = rd.pos, !.r_buf = rd.buf], "rename",
                nums, {}, FALSE)
    ELSE Turned([mg EXCEPT !.r_pos = rd.pos, !.r_buf = rd.buf,
                           !.w_buf = Append(@, Unwrap(rd.line))],
                "drain", nums, {}, FALSE)

\* lines 455-464 (and 310-322): the next remaining old result line
DrainRead(mg, rd, nums, files, poisoned) ==
    IF ~IsSome(rd.line)
    THEN Turned([mg EXCEPT !.r_pos = rd.pos, !.r_buf = rd.buf], "rename",
                nums, {}, FALSE)
    ELSE CHOOSE r \in
             { DrainWrite([mg EXCEPT !.r_pos = rd.pos, !.r_buf = rd.buf], up) :
                 up \in { update_post_line_with_put_delete(
                              mg.should_update_results, mg.puts_deletes,
                              ReadResultLine(Unwrap(rd.line)), nums, files,
                              poisoned) } } : TRUE

\* lines 444-464 and 310-322: one remaining old result line, the buffered
\* one first (lines 444-453), patched and written
MergeDrain(mg, content, nums, files, poisoned) ==
    IF IsSome(mg.read_result)
    THEN CHOOSE r \in
             { DrainWrite([mg EXCEPT !.read_result = None], up) :
                 up \in { update_post_line_with_put_delete(
                              mg.should_update_results, mg.puts_deletes,
                              Unwrap(mg.read_result), nums, files,
                              poisoned) } } : TRUE
    ELSE CHOOSE r \in
             { DrainRead(mg, rd, nums, files, poisoned) :
                 rd \in { ReaderNext(content, mg.r_pos, mg.r_buf) } } : TRUE

---------------------------------------------------------------------------
(* The remote service and the files a run starts from.                     *)

Uuid(i) == <<Digits[i + 1]>>

\* the record the service holds for uuid i
Post(i, image) ==
    [ uuid |-> Uuid(i),
      author |-> IF i = 1 THEN <<"alice">> ELSE IF i = 2 THEN <<"carol">>
                 ELSE <<"bob">>,
      message |-> IF i = 1 THEN <<"hi">> ELSE IF i = 2 THEN <<"new">>
                  ELSE <<"yo">>,
      likes |-> IF i = 1 THEN 5 ELSE IF i = 2 THEN 0 ELSE 2,
      image |-> image ]

\* the mutations the service may send for uuid i
PutUpdate(i, image) ==
    [ uuid |-> Uuid(i),
      put |-> Some([author |-> <<"alice2">>, message |-> <<"hi2">>,
                    likes |-> 6, image |-> image]),
      delete |-> FALSE ]
DeleteUpdate(i) == [uuid |-> Uuid(i), put |-> None, delete |-> TRUE]

MutKinds == {"delete", "put", "put_empty", "put_img"}
Mutation(i, kind) ==
    IF kind = "delete" THEN DeleteUpdate(i)
    ELSE IF kind = "put" THEN PutUpdate(i, None)
    ELSE IF kind = "put_empty" THEN PutUpdate(i, Some(<<>>))
    ELSE PutUpdate(i, Some(<<"img">>))

\* the elements of a set of numbers as an ascending sequence
RECURSIVE Ascending(_)
Ascending(S) ==
    IF S = {} THEN <<>>
    ELSE <<Min(S)>> \o Ascending(S \ {Min(S)})

\* f does not decrease over the uuids it gives a page (data model,
\* invariants 2 and 3: pages partition the key space)
Monotone(f) ==
    \A i, j \in DOMAIN f : (i < j /\ f[i] >= 1 /\ f[j] >= 1) => f[i] <= f[j]

\* One run's world over the uuids 1 .. u.  place[i] says where uuid i lives:
\* 0 in the dataset file, p >= 1 a new record of page p, -1 nowhere.  mut[i]
\* is the mutation the service sends for uuid i: its page (0 for none) and
\* its kind.  first: no dataset file yet.  stale: the staging record file of
\* page 1 is still there from the first run, the one that wrote the dataset
\* file.  image: the image of the records of the dataset file.  The service
\* holds no mutations for a client that has no dataset yet (the comment of
\* lines 99-100).
PlaceSet(u, n, first) ==
    { pl \in [1..u -> -1..n] :
        Monotone(pl) /\ (first => \A i \in 1..u : pl[i] # 0) }

NoMutation == [page |-> 0, kind |-> "delete"]
MutSet(u, n, kind, mkinds, maxMut) ==
    IF kind = "Fresh" THEN {[i \in 1..u |-> NoMutation]}
    ELSE { m \in [1..u -> {NoMutation} \cup [page : 1..n, kind : mkinds]] :
             /\ Monotone([i \in 1..u |-> m[i].page])
             /\ Cardinality({i \in 1..u : m[i].page # 0}) <= maxMut }

\* every uuid of the world occurs in it, as a line, a record or the target
\* of a mutation
Used(pl, m) == \A i \in DOMAIN pl : pl[i] # -1 \/ m[i].page # 0

Worlds(uuids, pages, workers, kinds, mkinds, images, stales, maxMut) ==
    UNION { UNION { UNION { UNION { UNION {
      { wd \in
          [ total_pages : {n}, kind : {k}, num_workers : {w}, first : {fs},
            stale : IF fs THEN {FALSE} ELSE stales,
            place : PlaceSet(u, n, fs),
            mut : MutSet(u, n, k, mkinds, maxMut),
            image : images ] :
          /\ Used(wd.place, wd.mut)
          /\ (fs => \A i \in 1..u : wd.mut[i].page = 0)
          /\ ((\A i \in 1..u : wd.place[i] # 0) => wd.image = None) }
      : fs \in BOOLEAN } : w \in workers } : k \in kinds } : n \in pages }
      : u \in uuids }

\* the dataset file of a world, and what the service sends as page p
OldLines(wd) ==
    LET q == Ascending({i \in DOMAIN wd.place : wd.place[i] = 0})
    IN  [k \in 1..Len(q) |-> into_csv_row(Post(q[k], wd.image))]
PageRecords(wd, p) ==
    LET q == Ascending({i \in DOMAIN wd.place : wd.place[i] = p})
    IN  [k \in 1..Len(q) |-> Post(q[k], None)]
PageMutations(wd, p) ==
    LET q == Ascending({i \in DOMAIN wd.mut : wd.mut[i].page = p})
    IN  [k \in 1..Len(q) |-> Mutation(q[k], wd.mut[q[k]].kind)]

---------------------------------------------------------------------------
(* The registries of staged files.  magic.rs keeps page numbers in two     *)
(* BTreeSet<usize>; magic/mod.rs with magic/state.rs, and lib.rs, keep     *)
(* the names of the record files in a BTreeSet<String> and number the      *)
(* mutation files by a counter of arrival, kept in a VecDeque.             *)

\* largest total_pages of the runs that only register and pop
MaxRegPages == 10
\* pages 1 .. MaxRegMutPages may carry mutations in those runs
MaxRegMutPages == 2

\* post_file_name: format!("posts_{n}.csv")
post_file_name(n) == <<"posts_">> \o Decimal(n) \o <<".csv">>

\* byte order inside file names: '.' (0x2E) is below the digits
NameRank(tok) == IF tok = ".csv" THEN 0 ELSE Rank(tok)

\* String's Ord, on two file names
RECURSIVE NameLt(_, _)
NameLt(a, b) ==
    IF Len(b) = 0 THEN FALSE
    ELSE IF Len(a) = 0 THEN TRUE
    ELSE IF a[1] = b[1] THEN NameLt(Tail(a), Tail(b))
    ELSE NameRank(a[1]) < NameRank(b[1])

\* BTreeSet<String>::pop_first: the least name
FirstName(S) == CHOOSE x \in S : \A y \in S \ {x} : NameLt(x, y)

\* the page whose record file has this name
PageOf(name, n) == CHOOSE p \in 1..n : post_file_name(p) = name

\* the registries at the start of a run of n pages of which the pages mp
\* carry mutations.  staged, numbered, pushed: the pages whose task has
\* passed the registration of its record file, the increment of
\* cache_number, the push_back.  cache_file[c]: the page whose mutations
\* cached_mutations_{c} holds.  new_* and patch_*: the pages in the order
\* in which merge_posts / merge and the applier take their files.
RegistryOf(n, mp) ==
    [ total_pages |-> n, mut_pages |-> mp,
      staged |-> {}, numbered |-> {}, pushed |-> {},
      posts_file_numbers |-> {}, posts_file_names |-> {},
      puts_deletes_file_numbers |-> {},
      cache_number |-> 0, cache_number_list |-> <<>>, cache_file |-> <<>>,
      my_cache_num |-> [p \in mp |-> 0],
      new_numbers |-> <<>>, new_names |-> <<>>,
      patch_numbers |-> <<>>, patch_cache |-> <<>> ]

\* the registries of a run that the full model follows
NoRegistry == RegistryOf(0, {})

---------------------------------------------------------------------------
VARIABLES
    remote,         \* the service: total_pages, kind, the pages it holds
    served,         \* page numbers it has handed out in this run
    num_workers,    \* the argument of get_all_pagination
    dir,            \* directory: inode of results.csv and of merge.csv, 0 = none
    inodes,         \* inode -> lines of the file
    posts,          \* page number -> Option(lines of posts_{n}.csv)
    cached,         \* page number -> Option(bytes of cached_mutations_{n})
    pages_fetched,  \* State.pages_fetched
    posts_file_numbers,         \* State.posts_file_numbers
    puts_deletes_file_numbers,  \* State.puts_deletes_file_numbers
    lock,           \* holder of each mutex that is held across steps, 0 = free
    poisoned,       \* the mutexes a panicking holder has poisoned
    first_sync,     \* the flag of get_all_pagination
    cpc,            \* where the coordinator (the caller's thread) is
    queued,         \* tasks in the pool's queue
    panic_count,    \* tasks that panicked (threadpool's panic_count)
    outcome,        \* what sync() gave its caller: "none", "Ok", "Panic"
    pc,             \* where each pool thread is in get_page_and_process
    res,            \* the page number each thread's task has decoded
    mg,             \* each thread's locals of merge / merge_posts
    merges,         \* history: calls of merge and merge_posts in the run
    pre,            \* history: Option(lines of results.csv) before the run
    faults,         \* I/O errors injected so far
    requests,       \* history: requests sent to the service, by endpoint
    reg             \* the registries of staged files, in each form the
                    \* sources give them (used by SpecRegistry only)

disk  == <<dir, inodes, posts, cached>>
state == <<pages_fetched, posts_file_numbers, puts_deletes_file_numbers,
           lock, poisoned>>
coord == <<num_workers, first_sync, cpc, queued, outcome>>
hist  == <<merges, pre, faults, requests>>
vars  == <<remote, served, disk, state, coord, panic_count, pc, res, mg, hist,
           reg>>

Threads == 1..MaxWorkers
PageNumbers == 1..(IF ManyPages > MaxPages THEN ManyPages ELSE MaxPages)

InitOf(wd) ==
    /\ remote = [ total_pages |-> wd.total_pages, kind |-> wd.kind,
                  pages |-> [p \in PageNumbers |->
                               [ posts |-> PageRecords(wd, p),
                                 puts_deletes |-> PageMutations(wd, p) ]] ]
    /\ served = {}
    /\ num_workers = wd.num_workers
    /\ dir = [results |-> IF wd.first THEN 0 ELSE 1, merge |-> 0]
    /\ inodes = IF wd.first THEN <<>> ELSE <<OldLines(wd)>>
    /\ posts = [p \in PageNumbers |->
                  IF wd.stale /\ p = 1 THEN Some(OldLines(wd)) ELSE None]
    /\ cached = [p \in PageNumbers |-> None]
    /\ pages_fetched = 0
    /\ posts_file_numbers = {}
    /\ puts_deletes_file_numbers = {}
    /\ lock = [pages_fetched |-> 0, posts_file_numbers |-> 0]
    /\ poisoned = {}
    /\ first_sync = FALSE
    /\ cpc = "start"
    /\ queued = 0
    /\ panic_count = 0
    /\ outcome = "none"
    /\ pc = [t \in Threads |-> "idle"]
    /\ res = [t \in Threads |-> 0]
    /\ mg = [t \in Threads |-> NoMerge]
    /\ merges = 0
    /\ pre = IF wd.first THEN None ELSE Some(OldLines(wd))
    /\ faults = 0
    /\ requests = [meta |-> 0, page |-> 0]

---------------------------------------------------------------------------
(* Fetch Coordinator: get_all_pagination on the thread that called sync.   *)

\* a coordinator that probes for results.csv by opening it with create
TriggerCreating ==
    /\ cpc = "start"
    /\ first_sync' = (dir.results = 0)
    /\ dir' = IF dir.results # 0 THEN dir
              ELSE [dir EXCEPT !.results = Len(inodes) + 1]
    /\ inodes' = IF dir.results # 0 THEN inodes ELSE Append(inodes, <<>>)
    /\ queued' = remote.total_pages
    /\ cpc' = "join"
    /\ requests' = [requests EXCEPT !.meta = @ + 1]
    /\ UNCHANGED <<remote, reg, served, posts, cached, state, num_workers, outcome,
                   panic_count, pc, res, mg, merges, pre, faults>>

\* lines 15-39: the metadata request, the shared State, first_sync, the
\* pool and the submission of total_pages tasks
Trigger ==
    /\ cpc = "start"
    /\ first_sync' = (dir.results = 0)
    /\ queued' = remote.total_pages
    /\ cpc' = "join"
    /\ requests' = [requests EXCEPT !.meta = @ + 1]
    /\ UNCHANGED <<remote, reg, served, disk, state, num_workers, outcome,
                   panic_count, pc, res, mg, merges, pre, faults>>

\* a join that waits for the queue to empty but not for the running tasks
PoolJoinEarly ==
    /\ cpc = "join"
    /\ queued = 0
    /\ cpc' = "returned"
    /\ outcome' = "Ok"
    /\ UNCHANGED <<remote, reg, served, disk, state, num_workers, first_sync,
                   queued, panic_count, pc, res, mg, hist>>

\* line 42 and lib.rs 25-26: pool.join() returns when no task is queued or
\* active, whether or not tasks panicked, and sync returns Ok(())
PoolJoin ==
    /\ cpc = "join"
    /\ queued = 0
    /\ \A t \in Threads : pc[t] = "idle"
    /\ cpc' = "returned"
    /\ outcome' = "Ok"
    /\ UNCHANGED <<remote, reg, served, disk, state, num_workers, first_sync,
                   queued, panic_count, pc, res, mg, hist>>

---------------------------------------------------------------------------
(* Page Worker: get_page_and_process, one task on pool thread t.           *)

\* the task ends: its locals are dropped and the thread waits for a task
Leave(t) ==
    /\ pc' = [pc EXCEPT ![t] = "idle"]
    /\ res' = [res EXCEPT ![t] = 0]
    /\ mg' = [mg EXCEPT ![t] = NoMerge]

\* an unwrap fails while the task holds no guard and no writer: the task
\* panics, the pool counts it and keeps the thread's place for the next task
Die(t) ==
    /\ Leave(t)
    /\ panic_count' = panic_count + 1

\* a pool that runs a queued task on any of its threads, more than
\* num_workers of them.  C26 tells this from Fetch.
FetchUnbounded(t) ==
    /\ cpc = "join"
    /\ pc[t] = "idle" /\ queued > 0
    /\ \A u \in 1..(t - 1) : pc[u] # "idle"
    /\ \E p \in (1..remote.total_pages) \ served :
          /\ served' = served \cup {p}
          /\ res' = [res EXCEPT ![t] = p]
    /\ queued' = queued - 1
    /\ pc' = [pc EXCEPT ![t] = "register"]
    /\ requests' = [requests EXCEPT !.page = @ + 1]
    /\ UNCHANGED <<remote, reg, disk, state, num_workers, first_sync, cpc,
                   outcome, panic_count, mg, merges, pre, faults>>

\* lines 51-62 / 82: a thread takes a queued task; the request to /get-page
\* is answered with a page the service has not handed out yet.  The pool's
\* threads are alike, so the idle thread with the lowest number stands for
\* whichever idle thread takes the task.
Fetch(t) ==
    /\ cpc = "join" /\ t <= num_workers
    /\ pc[t] = "idle" /\ queued > 0
    /\ \A u \in 1..(t - 1) : pc[u] # "idle"
    /\ \E p \in (1..remote.total_pages) \ served :
          /\ served' = served \cup {p}
          /\ res' = [res EXCEPT ![t] = p]
    /\ queued' = queued - 1
    /\ pc' = [pc EXCEPT ![t] = "register"]
    /\ requests' = [requests EXCEPT !.page = @ + 1]
    /\ UNCHANGED <<remote, reg, disk, state, num_workers, first_sync, cpc, outcome,
                   panic_count, mg, merges, pre, faults>>

\* lines 64-68 / 84-88: posts_file_numbers.lock().unwrap().insert(page_number)
Register(t) ==
    /\ pc[t] = "register"
    /\ lock.posts_file_numbers = 0
    /\ IF "posts_file_numbers" \in poisoned
       THEN Die(t) /\ UNCHANGED posts_file_numbers
       ELSE /\ posts_file_numbers' = posts_file_numbers \cup {res[t]}
            /\ pc' = [pc EXCEPT ![t] = "write_posts"]
            /\ UNCHANGED <<res, mg, panic_count>>
    /\ UNCHANGED <<remote, reg, served, disk, pages_fetched,
                   puts_deletes_file_numbers, lock, poisoned, coord, hist>>

\* write_posts_csv, lines 136-151: the file is opened with create and
\* append, one row per post is written after what the file holds
write_posts_csv(file, messages) ==
    Some((IF IsSome(file) THEN Unwrap(file) ELSE <<>>)
         \o [k \in 1..Len(messages) |-> into_csv_row(messages[k])])

\* lines 70-71 / 90-91
WritePosts(t) ==
    /\ pc[t] = "write_posts"
    /\ posts' = [posts EXCEPT ![res[t]] =
                   write_posts_csv(@, remote.pages[res[t]].posts)]
    /\ pc' = [pc EXCEPT ![t] = "count"]
    /\ UNCHANGED <<remote, reg, served, dir, inodes, cached, state, coord,
                   panic_count, res, mg, hist>>

\* a counter that starts again at 0 when the last page is counted, as one
\* kept for the next run would.  C34 tells this from Count.
CountResetting(t) ==
    /\ pc[t] = "count"
    /\ lock.pages_fetched = 0
    /\ pages_fetched' = (pages_fetched + 1) % remote.total_pages
    /\ IF remote.kind = "Fresh" THEN Leave(t)
       ELSE /\ pc' = [pc EXCEPT ![t] = "check"]
            /\ UNCHANGED <<res, mg>>
    /\ UNCHANGED <<remote, reg, served, disk, posts_file_numbers,
                   puts_deletes_file_numbers, lock, poisoned, coord,
                   panic_count, hist>>

\* lines 73-79 (Fresh) and 93-105 (Cache): the counter is incremented and
\* compared under its lock; the guard stays alive over merge_posts
Count(t) ==
    /\ pc[t] = "count"
    /\ lock.pages_fetched = 0
    /\ IF "pages_fetched" \in poisoned
       THEN Die(t) /\ UNCHANGED <<pages_fetched, lock, merges>>
       ELSE
         /\ pages_fetched' = pages_fetched + 1
         /\ UNCHANGED panic_count
         /\ IF /\ pages_fetched + 1 = remote.total_pages
               /\ (remote.kind = "Fresh" \/ first_sync)
            THEN /\ lock' = [lock EXCEPT !.pages_fetched = t]
                 /\ merges' = merges + 1
                 /\ pc' = [pc EXCEPT ![t] = "mp_open"]
                 /\ UNCHANGED <<res, mg>>
            ELSE /\ UNCHANGED <<lock, merges>>
                 /\ IF remote.kind = "Fresh" THEN Leave(t)
                    ELSE /\ pc' = [pc EXCEPT ![t] =
                                IF Len(remote.pages[res[t]].puts_deletes) # 0
                                THEN "reg_mut" ELSE "check"]
                         /\ UNCHANGED <<res, mg>>
    /\ UNCHANGED <<remote, reg, served, disk, posts_file_numbers,
                   puts_deletes_file_numbers, poisoned, coord, pre, faults,
                   requests>>

\* lines 107-112: puts_deletes_file_numbers.lock().unwrap().insert(page_number)
RegMut(t) ==
    /\ pc[t] = "reg_mut"
    /\ IF "puts_deletes_file_numbers" \in poisoned
       THEN Die(t) /\ UNCHANGED puts_deletes_file_numbers
       ELSE /\ puts_deletes_file_numbers' = puts_deletes_file_numbers \cup {res[t]}
            /\ pc' = [pc EXCEPT ![t] = "mut_create"]
            /\ UNCHANGED <<res, mg, panic_count>>
    /\ UNCHANGED <<remote, reg, served, disk, pages_fetched, posts_file_numbers,
                   lock, poisoned, coord, hist>>

\* lines 115-117, std::fs::write: the file is created or truncated ...
MutCreate(t) ==
    /\ pc[t] = "mut_create"
    /\ cached' = [cached EXCEPT ![res[t]] = Some(<<>>)]
    /\ pc' = [pc EXCEPT ![t] = "mut_write"]
    /\ UNCHANGED <<remote, reg, served, dir, inodes, posts, state, coord,
                   panic_count, res, mg, hist>>

\* ... and then the encoded mutations are written
MutWrite(t) ==
    /\ pc[t] = "mut_write"
    /\ cached' = [cached EXCEPT ![res[t]] =
                    Some(Encode(remote.pages[res[t]].puts_deletes))]
    /\ pc' = [pc EXCEPT ![t] = "check"]
    /\ UNCHANGED <<remote, reg, served, dir, inodes, posts, state, coord,
                   panic_count, res, mg, hist>>

\* a task that ends after staging its mutations without reading the
\* counter again.  C30 tells this from Check.
CheckLeaving(t) ==
    /\ pc[t] = "check"
    /\ Leave(t)
    /\ UNCHANGED <<remote, reg, served, disk, state, coord, panic_count, hist>>

\* lines 120-122: the counter is read again, under a lock taken anew, and
\* the task that finds it at total_pages calls merge
Check(t) ==
    /\ pc[t] = "check"
    /\ lock.pages_fetched = 0
    /\ IF "pages_fetched" \in poisoned
       THEN Die(t) /\ UNCHANGED merges
       ELSE /\ UNCHANGED panic_count
            /\ IF pages_fetched = remote.total_pages
               THEN /\ merges' = merges + 1
                    /\ pc' = [pc EXCEPT ![t] = "merge_open_w"]
                    /\ UNCHANGED <<res, mg>>
               ELSE Leave(t) /\ UNCHANGED merges
    /\ UNCHANGED <<remote, reg, served, disk, state, coord, pre, faults, requests>>

---------------------------------------------------------------------------
(* State::merge_posts(RESULT_CSV_NAME), called with the guard of           *)
(* pages_fetched alive.                                                    *)

\* opening `name` with write(true).create(true): the file of that name, or
\* a new empty one; what a file holds is kept
OpenCreate(d, files, name) ==
    IF d[name] # 0 THEN [dir |-> d, inodes |-> files, ino |-> d[name]]
    ELSE [dir |-> [d EXCEPT ![name] = Len(files) + 1],
          inodes |-> Append(files, <<>>), ino |-> Len(files) + 1]

\* lines 263-269
MpOpen(t) ==
    /\ pc[t] = "mp_open"
    /\ LET o == OpenCreate(dir, inodes, "results") IN
          /\ dir' = o.dir
          /\ inodes' = o.inodes
          /\ mg' = [mg EXCEPT ![t].w_ino = o.ino]
    /\ pc' = [pc EXCEPT ![t] = "mp_copy"]
    /\ UNCHANGED <<remote, reg, served, posts, cached, state, coord, panic_count,
                   res, hist>>

\* a copy that takes the registered files from the highest page number down
RECURSIVE CopyPostsDescending(_, _)
CopyPostsDescending(nums, files) ==
    IF nums = {} THEN [lines |-> <<>>, ok |-> TRUE, left |-> {}]
    ELSE LET n == CHOOSE x \in nums : \A y \in nums : x >= y IN
         IF ~IsSome(files[n])
         THEN [lines |-> <<>>, ok |-> FALSE, left |-> nums \ {n}]
         ELSE LET rest == CopyPostsDescending(nums \ {n}, files)
              IN  [rest EXCEPT !.lines = Unwrap(files[n]) \o @]

\* lines 270-276: every registered file, in ascending page number, copied
\* line by line into the writer; ok is FALSE when a file cannot be opened
RECURSIVE CopyPosts(_, _)
CopyPosts(nums, files) ==
    IF nums = {} THEN [lines |-> <<>>, ok |-> TRUE, left |-> {}]
    ELSE LET n == Min(nums) IN
         IF ~IsSome(files[n])
         THEN [lines |-> <<>>, ok |-> FALSE, left |-> nums \ {n}]
         ELSE LET rest == CopyPosts(nums \ {n}, files)
              IN  [rest EXCEPT !.lines = Unwrap(files[n]) \o @]

MpCopy(t) ==
    /\ pc[t] = "mp_copy"
    /\ lock.posts_file_numbers = 0
    /\ IF "posts_file_numbers" \in poisoned
       THEN /\ mg' = [mg EXCEPT ![t].panicking = TRUE]
            /\ UNCHANGED <<posts_file_numbers, poisoned>>
       ELSE LET c == CopyPosts(posts_file_numbers, posts) IN
            /\ posts_file_numbers' = c.left
            /\ mg' = [mg EXCEPT ![t].w_buf = c.lines,
                                ![t].panicking = ~c.ok]
            /\ poisoned' = IF c.ok THEN poisoned
                           ELSE poisoned \cup {"posts_file_numbers"}
    /\ pc' = [pc EXCEPT ![t] = "mp_flush"]
    /\ UNCHANGED <<remote, reg, served, disk, pages_fetched,
                   puts_deletes_file_numbers, lock, coord, panic_count, res,
                   hist>>

\* line 277 and the end of the task: the writer is dropped, which flushes
\* it, then the guard of pages_fetched
MpFlush(t) ==
    /\ pc[t] = "mp_flush"
    /\ inodes' = [inodes EXCEPT ![mg[t].w_ino] = Overlay(@, mg[t].w_buf)]
    /\ lock' = [lock EXCEPT !.pages_fetched = 0]
    /\ poisoned' = IF mg[t].panicking THEN poisoned \cup {"pages_fetched"}
                   ELSE poisoned
    /\ panic_count' = IF mg[t].panicking THEN panic_count + 1 ELSE panic_count
    /\ Leave(t)
    /\ UNCHANGED <<remote, reg, served, dir, posts, cached, pages_fetched,
                   posts_file_numbers, puts_deletes_file_numbers, coord, hist>>

---------------------------------------------------------------------------
(* State::merge, called by the task of thread t.                           *)

\* a panic inside merge unwinds through its locals: the guard of
\* posts_file_numbers (when this task holds it), then final_writer
Unwind(t) == IF lock.posts_file_numbers = t THEN "merge_unlock" ELSE "merge_flush"

\* lines 284-291: final_writer on merge.csv
MergeOpenW(t) ==
    /\ pc[t] = "merge_open_w"
    /\ LET o == OpenCreate(dir, inodes, "merge") IN
          /\ dir' = o.dir
          /\ inodes' = o.inodes
          /\ mg' = [mg EXCEPT ![t].w_ino = o.ino]
    /\ pc' = [pc EXCEPT ![t] = "merge_open_r"]
    /\ UNCHANGED <<remote, reg, served, posts, cached, state, coord, panic_count,
                   res, hist>>

\* lines 293-302: results_reader on results.csv, and should_update_results
MergeOpenR(t) ==
    /\ pc[t] = "merge_open_r"
    /\ IF dir.results = 0 \/ "puts_deletes_file_numbers" \in poisoned
       THEN /\ mg' = [mg EXCEPT ![t].panicking = TRUE]
            /\ pc' = [pc EXCEPT ![t] = Unwind(t)]
       ELSE /\ mg' = [mg EXCEPT ![t].r_ino = dir.results,
                                ![t].should_update_results =
                                    (puts_deletes_file_numbers # {})]
            /\ pc' = [pc EXCEPT ![t] = "merge_lock"]
    /\ UNCHANGED <<remote, reg, served, disk, state, coord, panic_count, res, hist>>

\* lines 304-343: the guard of posts_file_numbers is taken for the rest of
\* merge; the first cached post file is opened, or there is none and only
\* the old result lines remain
MergeLock(t) ==
    /\ pc[t] = "merge_lock"
    /\ lock.posts_file_numbers = 0
    /\ IF "posts_file_numbers" \in poisoned
       THEN /\ mg' = [mg EXCEPT ![t].panicking = TRUE]
            /\ pc' = [pc EXCEPT ![t] = "merge_flush"]
            /\ UNCHANGED <<lock, posts_file_numbers>>
       ELSE
         /\ lock' = [lock EXCEPT !.posts_file_numbers = t]
         /\ IF posts_file_numbers = {}
            THEN /\ pc' = [pc EXCEPT ![t] = "merge_drain"]
                 /\ UNCHANGED <<mg, posts_file_numbers>>
            ELSE LET n == Min(posts_file_numbers) IN
                 /\ posts_file_numbers' = posts_file_numbers \ {n}
                 /\ IF IsSome(posts[n])
                    THEN /\ mg' = [mg EXCEPT ![t].cached_posts_reader =
                                                 Unwrap(posts[n])]
                         /\ pc' = [pc EXCEPT ![t] = "merge_loop"]
                    ELSE /\ mg' = [mg EXCEPT ![t].panicking = TRUE]
                         /\ pc' = [pc EXCEPT ![t] = "merge_unlock"]
    /\ UNCHANGED <<remote, reg, served, disk, pages_fetched,
                   puts_deletes_file_numbers, poisoned, coord, panic_count,
                   res, hist>>

\* lines 344-442: one turn of the merge loop
MergeLoop(t) ==
    /\ pc[t] = "merge_loop"
    /\ \E r \in {MergeIter(mg[t], inodes[mg[t].r_ino],
                          puts_deletes_file_numbers, cached,
                          "puts_deletes_file_numbers" \in poisoned,
                          posts_file_numbers, posts)} :
          /\ mg' = [mg EXCEPT ![t] = [r.mg EXCEPT !.panicking = (r.exit = "panic")]]
          /\ puts_deletes_file_numbers' = r.nums
          /\ posts_file_numbers' = r.post_nums
          /\ poisoned' = IF r.poison
                         THEN poisoned \cup {"puts_deletes_file_numbers"}
                         ELSE poisoned
          /\ pc' = [pc EXCEPT ![t] = IF r.exit = "loop" THEN "merge_loop"
                                     ELSE IF r.exit = "drain" THEN "merge_drain"
                                     ELSE "merge_unlock"]
    /\ UNCHANGED <<remote, reg, served, disk, pages_fetched, lock, coord,
                   panic_count, res, hist>>

\* lines 444-464 (and 310-322): one remaining old result line
MergeDrainStep(t) ==
    /\ pc[t] = "merge_drain"
    /\ \E r \in {MergeDrain(mg[t], inodes[mg[t].r_ino],
                           puts_deletes_file_numbers, cached,
                           "puts_deletes_file_numbers" \in poisoned)} :
          /\ mg' = [mg EXCEPT ![t] = [r.mg EXCEPT !.panicking = (r.exit = "panic")]]
          /\ puts_deletes_file_numbers' = r.nums
          /\ poisoned' = IF r.poison
                         THEN poisoned \cup {"puts_deletes_file_numbers"}
                         ELSE poisoned
          /\ pc' = [pc EXCEPT ![t] = IF r.exit = "drain" THEN "merge_drain"
                                     ELSE IF r.exit = "rename" THEN "merge_rename"
                                     ELSE "merge_unlock"]
    /\ UNCHANGED <<remote, reg, served, disk, pages_fetched, posts_file_numbers,
                   lock, coord, panic_count, res, hist>>

\* lines 325 and 467: std::fs::rename(MERGE_FILE_NAME, RESULT_CSV_NAME),
\* with final_writer not yet flushed
MergeRename(t) ==
    /\ pc[t] = "merge_rename"
    /\ IF dir.merge = 0
       THEN /\ mg' = [mg EXCEPT ![t].panicking = TRUE]
            /\ UNCHANGED dir
       ELSE /\ dir' = [results |-> dir.merge, merge |-> 0]
            /\ UNCHANGED mg
    /\ pc' = [pc EXCEPT ![t] = "merge_unlock"]
    /\ UNCHANGED <<remote, reg, served, inodes, posts, cached, state, coord,
                   panic_count, res, hist>>

\* a merge that ends without dropping the guard of posts_file_numbers.
\* C29 tells this from MergeUnlock.
MergeUnlockKeeping(t) ==
    /\ pc[t] = "merge_unlock"
    /\ poisoned' = IF mg[t].panicking
                   THEN poisoned \cup {"posts_file_numbers"} ELSE poisoned
    /\ pc' = [pc EXCEPT ![t] = "merge_flush"]
    /\ UNCHANGED <<remote, reg, served, disk, pages_fetched, posts_file_numbers,
                   puts_deletes_file_numbers, lock, coord, panic_count, res,
                   mg, hist>>

\* the end of merge: the guard of posts_file_numbers is dropped ...
MergeUnlock(t) ==
    /\ pc[t] = "merge_unlock"
    /\ lock' = [lock EXCEPT !.posts_file_numbers = 0]
    /\ poisoned' = IF mg[t].panicking
                   THEN poisoned \cup {"posts_file_numbers"} ELSE poisoned
    /\ pc' = [pc EXCEPT ![t] = "merge_flush"]
    /\ UNCHANGED <<remote, reg, served, disk, pages_fetched, posts_file_numbers,
                   puts_deletes_file_numbers, coord, panic_count, res, mg,
                   hist>>

\* ... and then final_writer, which writes its buffer to the file it opened
MergeFlush(t) ==
    /\ pc[t] = "merge_flush"
    /\ inodes' = [inodes EXCEPT ![mg[t].w_ino] = Overlay(@, mg[t].w_buf)]
    /\ panic_count' = IF mg[t].panicking THEN panic_count + 1 ELSE panic_count
    /\ Leave(t)
    /\ UNCHANGED <<remote, reg, served, dir, posts, cached, state, coord, hist>>

---------------------------------------------------------------------------
Work(t) ==
    \/ Fetch(t) \/ Register(t) \/ WritePosts(t) \/ Count(t)
    \/ RegMut(t) \/ MutCreate(t) \/ MutWrite(t) \/ Check(t)
    \/ MpOpen(t) \/ MpCopy(t) \/ MpFlush(t)
    \/ MergeOpenW(t) \/ MergeOpenR(t) \/ MergeLock(t) \/ MergeLoop(t)
    \/ MergeDrainStep(t) \/ MergeRename(t) \/ MergeUnlock(t) \/ MergeFlush(t)

Next == Trigger \/ PoolJoin \/ \E t \in Threads : Work(t)

AllWorlds ==
    Worlds(0..MaxUuid, 0..MaxPages, 1..MaxWorkers, {"Fresh", "Cache"},
           {"delete", "put"}, {None}, {FALSE}, MaxMut)

Init == \E wd \in AllWorlds : InitOf(wd) /\ reg = NoRegistry

Spec == Init /\ [][Next]_vars

\* The runs in which a step is taken as long as one can be: the thread
\* that called sync and the pool threads are threads of the operating
\* system, which runs one of those that do not wait for a mutex or a task.
Fairness == WF_vars(Next)

\* uuids of the runs checked for progress are "1" .. LiveUuid
LiveUuid == 1
LiveWorlds ==
    Worlds(0..LiveUuid, 0..MaxPages, 1..MaxWorkers, {"Fresh", "Cache"},
           {"put"}, {None}, {FALSE}, MaxMut)

InitLive == \E wd \in LiveWorlds : InitOf(wd) /\ reg = NoRegistry

SpecLive == InitLive /\ [][Next]_vars /\ Fairness

---------------------------------------------------------------------------
(* Sequential runs: one pool thread, records with and without an image,    *)
(* every kind of mutation.                                                 *)

\* uuids of the sequential runs are "1" .. SeqUuid
SeqUuid == 3
SeqWorlds ==
    Worlds(0..SeqUuid, 0..MaxPages, {1}, {"Fresh", "Cache"}, MutKinds,
           {None, Some(<<"pic">>)}, {FALSE}, MaxMut)

InitSeq == \E wd \in SeqWorlds : InitOf(wd) /\ reg = NoRegistry

SpecSeq == InitSeq /\ [][Next]_vars

---------------------------------------------------------------------------
(* Runs in which requests and file operations may fail.                    *)

\* line 46: the metadata request or its decoding fails; the unwrap panics
\* on the thread that called sync, before any task is submitted
FaultMeta ==
    /\ cpc = "start"
    /\ faults < MaxFaults
    /\ faults' = faults + 1
    /\ cpc' = "returned"
    /\ outcome' = "Panic"
    /\ requests' = [requests EXCEPT !.meta = @ + 1]
    /\ UNCHANGED <<remote, reg, served, disk, state, num_workers, first_sync,
                   queued, panic_count, pc, res, mg, merges, pre>>

\* lines 52-62 and 82 (the page request or its decoding fails), 139-149
\* (the staging record file cannot be opened or written), 117 (the staging
\* mutation file cannot be written): an unwrap panics in the task, which
\* holds no guard there
Fault(t) ==
    /\ pc[t] \in {"register", "write_posts", "mut_create"}
    /\ faults < MaxFaults
    /\ faults' = faults + 1
    /\ Die(t)
    /\ UNCHANGED <<remote, reg, served, disk, state, coord, merges, pre, requests>>

NextFail == Next \/ FaultMeta \/ \E t \in Threads : Fault(t)

SpecFail == Init /\ [][NextFail]_vars

---------------------------------------------------------------------------
(* Runs that follow an earlier successful run: neither merge_posts nor     *)
(* merge removes a staging file, so the record file of page 1 that the     *)
(* first run (a run of one page) staged may still be there.                *)

StaleWorlds ==
    Worlds(0..MaxUuid, 0..MaxPages, {1}, {"Fresh", "Cache"},
           {"delete", "put"}, {None}, {FALSE, TRUE}, MaxMut)

InitStale == \E wd \in StaleWorlds : InitOf(wd) /\ reg = NoRegistry

SpecStale == InitStale /\ [][Next]_vars

---------------------------------------------------------------------------
(* Runs of kind Cache with ManyPages pages and one worker, so that a page  *)
(* without records can come before a page with records while the merge     *)
(* has an old line in hand.                                                *)

ManyWorlds ==
    Worlds(0..SeqUuid, {ManyPages}, {1}, {"Cache"}, {"delete", "put"},
           {None}, {FALSE}, 1)

InitMany == \E wd \in ManyWorlds : InitOf(wd) /\ reg = NoRegistry

SpecMany == InitMany /\ [][Next]_vars

---------------------------------------------------------------------------
(* Runs that only register and pop: every page's task registers its record *)
(* file, and its mutation file when the page carries mutations, in any     *)
(* order of the tasks; then the files are taken in the order the          *)
(* registries give.  Each step is made on every form of the registry.      *)

\* the variables of the full model, which these runs leave alone
run == <<remote, served, disk, state, coord, panic_count, pc, res, mg, hist>>

\* magic.rs 64-68 / 84-88: posts_file_numbers.insert(res.page_number);
\* magic/mod.rs 70-75 / 89-94 and lib.rs 191-194 / 210-213:
\* posts_file_names.insert(post_file_name(res.page_number))
StageRecords(p) ==
    /\ p \in (1..reg.total_pages) \ reg.staged
    /\ reg' = [reg EXCEPT !.staged = @ \cup {p},
                          !.posts_file_numbers = @ \cup {p},
                          !.posts_file_names = @ \cup {post_file_name(p)}]
    /\ UNCHANGED run

\* magic.rs 108-112: puts_deletes_file_numbers.insert(res.page_number);
\* magic/mod.rs 113-117 and lib.rs 232-236: cache_number += 1, and the
\* task's mutations go to cached_mutations_{cache_num} (121-124)
TakeCacheNumber(p) ==
    /\ p \in (reg.staged \cap reg.mut_pages) \ reg.numbered
    /\ reg' = [reg EXCEPT !.numbered = @ \cup {p},
                          !.puts_deletes_file_numbers = @ \cup {p},
                          !.cache_number = @ + 1,
                          !.my_cache_num[p] = reg.cache_number + 1,
                          !.cache_file = Append(@, p)]
    /\ UNCHANGED run

\* magic/mod.rs 118 and lib.rs 237: cache_number_list.push_back(cache_num)
PushCacheNumber(p) ==
    /\ p \in reg.numbered \ reg.pushed
    /\ reg' = [reg EXCEPT !.pushed = @ \cup {p},
                          !.cache_number_list = Append(@, reg.my_cache_num[p])]
    /\ UNCHANGED run

\* every task of the run has registered what it stages
AllRegistered ==
    /\ reg.staged = 1..reg.total_pages
    /\ reg.pushed = reg.mut_pages

\* magic.rs 271 / 307 / 380: posts_file_numbers.pop_first();
\* magic/state.rs 53 and lib.rs 167 / 299 / 336: posts_file_names.pop_first()
PopRecords ==
    /\ AllRegistered
    /\ reg.posts_file_numbers # {}
    /\ reg' = [reg EXCEPT
                 !.posts_file_numbers = @ \ {Min(@)},
                 !.new_numbers = Append(@, Min(reg.posts_file_numbers)),
                 !.posts_file_names = @ \ {FirstName(@)},
                 !.new_names = Append(@, PageOf(FirstName(reg.posts_file_names),
                                                reg.total_pages))]
    /\ UNCHANGED run

\* magic.rs 480: puts_deletes_file_numbers.pop_first();
\* magic/state.rs 258 and lib.rs 433: cache_number_list.pop_front()
PopMutations ==
    /\ AllRegistered
    /\ reg.puts_deletes_file_numbers # {}
    /\ reg' = [reg EXCEPT
                 !.puts_deletes_file_numbers = @ \ {Min(@)},
                 !.patch_numbers = Append(@, Min(reg.puts_deletes_file_numbers)),
                 !.cache_number_list = Tail(@),
                 !.patch_cache = Append(@, reg.cache_file[Head(reg.cache_number_list)])]
    /\ UNCHANGED run

NextRegistry ==
    \/ \E p \in 1..MaxRegPages :
          StageRecords(p) \/ TakeCacheNumber(p) \/ PushCacheNumber(p)
    \/ PopRecords
    \/ PopMutations

\* a world without pages, for the variables of the full model
IdleWorld ==
    [ total_pages |-> 0, kind |-> "Cache", num_workers |-> 1, first |-> FALSE,
      stale |-> FALSE, place |-> <<>>, mut |-> <<>>, image |-> None ]

InitRegistry ==
    /\ InitOf(IdleWorld)
    /\ \E n \in 0..MaxRegPages :
         \E mp \in SUBSET (1..MaxRegMutPages) :
            /\ mp \subseteq 1..n
            /\ reg = RegistryOf(n, mp)

SpecRegistry == InitRegistry /\ [][NextRegistry]_vars

---------------------------------------------------------------------------
(* What the properties speak about.                                        *)

\* the dataset file as a reader of results.csv finds it
Results == IF dir.results = 0 THEN None ELSE Some(inodes[dir.results])

StrictlyAscending(lines) ==
    \A k \in 1..(Len(lines) - 1) : StrLt(Key(lines[k]), Key(lines[k + 1]))

\* a task at one of these places is inside merge_posts or merge
MergePlaces ==
    {"mp_open", "mp_copy", "mp_flush", "merge_open_w", "merge_open_r",
     "merge_lock", "merge_loop", "merge_drain", "merge_rename",
     "merge_unlock", "merge_flush"}

\* a task at one of these places has staging left to do
StagingPlaces ==
    {"register", "write_posts", "count", "reg_mut", "mut_create", "mut_write"}

\* f[1] \o ... \o f[n]
RECURSIVE Concat(_, _)
Concat(f, n) == IF n = 0 THEN <<>> ELSE Concat(f, n - 1) \o f[n]

\* the records and the mutations of the run, in page order
AllRecords ==
    Concat([p \in PageNumbers |-> remote.pages[p].posts], remote.total_pages)
AllMutations ==
    Concat([p \in PageNumbers |-> remote.pages[p].puts_deletes],
           remote.total_pages)
Rows(records) == [k \in 1..Len(records) |-> into_csv_row(records[k])]

\* the reference result: a put replaces author, message and likes, and the
\* image when it carries one; a delete removes the line
RefPut(line, put) ==
    Join(<< Split(line)[1], put.author, put.message, Decimal(put.likes),
            IF IsSome(put.image) THEN Unwrap(put.image) ELSE Split(line)[5] >>)

RECURSIVE RefApply(_, _)
RefApply(line, muts) ==
    IF ~IsSome(line) \/ Len(muts) = 0 THEN line
    ELSE IF Head(muts).uuid # Key(Unwrap(line)) THEN RefApply(line, Tail(muts))
    ELSE IF Head(muts).delete THEN None
    ELSE RefApply(Some(RefPut(Unwrap(line), Unwrap(Head(muts).put))),
                  Tail(muts))

RECURSIVE RefPatched(_, _)
RefPatched(old, muts) ==
    IF Len(old) = 0 THEN <<>>
    ELSE (IF IsSome(RefApply(Some(Head(old)), muts))
          THEN <<Unwrap(RefApply(Some(Head(old)), muts))>> ELSE <<>>)
         \o RefPatched(Tail(old), muts)

RECURSIVE RefUnion(_, _)
RefUnion(a, b) ==
    IF Len(a) = 0 THEN b
    ELSE IF Len(b) = 0 THEN a
    ELSE IF StrLt(Key(Head(a)), Key(Head(b)))
    THEN <<Head(a)>> \o RefUnion(Tail(a), b)
    ELSE <<Head(b)>> \o RefUnion(a, Tail(b))

\* the dataset the run is to install: the export of a Fresh or first run,
\* the reference merge of a Cache run over a dataset
NewDataset ==
    IF remote.kind = "Fresh" \/ ~IsSome(pre) THEN Rows(AllRecords)
    ELSE RefUnion(RefPatched(Unwrap(pre), AllMutations), Rows(AllRecords))

---------------------------------------------------------------------------
(* Properties.                                                             *)

\* C1: when a run has returned, the dataset file has strictly ascending
\* uuids and no duplicates, for every kind of run (Fresh, Cache, first
\* run), given a sorted dataset before the run and pages that keep the
\* invariants of the data model.
C1_SortedAfterRun ==
    (cpc = "returned" /\ IsSome(Results)) => StrictlyAscending(Unwrap(Results))

\* C2: in a run, merge or merge_posts is called at most once, and exactly
\* once when the run has returned with total_pages >= 1 and no failed
\* task: no second task ever starts a merge.
C2_ExactlyOneMerge ==
    /\ merges <= 1
    /\ (cpc = "returned" /\ remote.total_pages >= 1 /\ panic_count = 0)
           => merges = 1

\* C3: while a task is inside merge or merge_posts, every page of the run
\* has been handed out and no other task has staging left to do: its
\* record file is written, its mutation file written and registered.
C3_MergeAfterStaging ==
    \A t \in Threads :
        pc[t] \in MergePlaces =>
            /\ queued = 0
            /\ \A u \in Threads : pc[u] \notin StagingPlaces

\* C4: at every moment of a run, results.csv holds the dataset of before
\* the run or the complete new dataset, never something in between.
C4_DatasetNeverPartial ==
    Results = pre \/ Results = Some(NewDataset)

\* C5: when a run has returned and the metadata request, a task or a merge
\* has failed, results.csv is what it was before the run.
C5_FailureKeepsDataset ==
    (cpc = "returned" /\ (panic_count > 0 \/ outcome = "Panic"))
        => Results = pre

\* C6: sync does not return Ok when a task or a merge of the run failed.
C6_FailureReported ==
    (cpc = "returned" /\ panic_count > 0) => outcome # "Ok"

\* C7: a Cache run over a dataset that has returned without a failed task
\* leaves in results.csv the reference result: the old lines with every
\* put applied to its line and every deleted line removed, merged in uuid
\* order with all records of all staged record files.
C7_MergeIsReference ==
    (cpc = "returned" /\ remote.kind = "Cache" /\ IsSome(pre)
        /\ remote.total_pages >= 1 /\ panic_count = 0)
        => Results = Some(NewDataset)

\* C8: after such a run every record of every staged record file is in
\* results.csv exactly once, at the place its uuid gives it, however many
\* record files were staged and however long the old and new streams are.
C8_EveryRecordInserted ==
    (cpc = "returned" /\ remote.kind = "Cache" /\ IsSome(pre)
        /\ remote.total_pages >= 1 /\ panic_count = 0)
        => /\ StrictlyAscending(Unwrap(Results))
           /\ \A k \in 1..Len(AllRecords) :
                 Cardinality({j \in 1..Len(Unwrap(Results)) :
                     Unwrap(Results)[j] = into_csv_row(AllRecords[k])}) = 1

Range(q) == {q[k] : k \in 1..Len(q)}

\* the old result line that the next turn of merge on thread t patches
CurrentResult(t) ==
    IF IsSome(mg[t].read_result) THEN mg[t].read_result
    ELSE IF IsSome(ReaderNext(inodes[mg[t].r_ino], mg[t].r_pos,
                              mg[t].r_buf).line)
    THEN Some(ReadResultLine(Unwrap(
             ReaderNext(inodes[mg[t].r_ino], mg[t].r_pos, mg[t].r_buf).line)))
    ELSE None

\* the mutation at the front of the patch stream of thread t: the first
\* buffered one, or the first one of the next registered mutation file
FrontUpdate(t) ==
    IF Len(mg[t].puts_deletes) # 0 THEN Some(Head(mg[t].puts_deletes))
    ELSE IF /\ "puts_deletes_file_numbers" \notin poisoned
            /\ puts_deletes_file_numbers # {}
            /\ IsSome(cached[Min(puts_deletes_file_numbers)])
            /\ IsSome(Decode(Unwrap(cached[Min(puts_deletes_file_numbers)])))
            /\ Len(Unwrap(Decode(Unwrap(
                   cached[Min(puts_deletes_file_numbers)])))) # 0
    THEN Some(Head(Unwrap(Decode(Unwrap(
                  cached[Min(puts_deletes_file_numbers)])))))
    ELSE None

\* the next turn of merge on thread t matches a mutation to an old line
Matches(t) ==
    /\ pc[t] \in {"merge_loop", "merge_drain"}
    /\ mg[t].should_update_results
    /\ IsSome(CurrentResult(t))
    /\ ~Unwrap(CurrentResult(t)).updated
    /\ IsSome(FrontUpdate(t))
    /\ Unwrap(FrontUpdate(t)).uuid = Key(Unwrap(CurrentResult(t)).line)

\* the lines with the key of `line` that the turn of thread t wrote to
\* final_writer or kept in read_result for the next turn
After(t, line) ==
    { l \in Range(SubSeq(mg[t].w_buf', Len(mg[t].w_buf) + 1,
                         Len(mg[t].w_buf')))
             \cup (IF IsSome(mg[t].read_result')
                   THEN {Unwrap(mg[t].read_result').line} ELSE {}) :
        Key(l) = Key(line) }

\* C9: when a turn of merge matches a put to an old line, the line that
\* goes on to the output has the uuid of the old line, author, message and
\* likes of the put, and as image the image of the put when it has one
\* (an empty one too), else the image field of the old line.
C9_PutSemantics ==
    [][ \A t \in Threads :
          ( /\ Matches(t)
            /\ ~Unwrap(FrontUpdate(t)).delete
            /\ IsSome(Unwrap(FrontUpdate(t)).put)
            /\ mg[t]' # mg[t] )
          => \E l \in After(t, Unwrap(CurrentResult(t)).line) :
               /\ After(t, Unwrap(CurrentResult(t)).line) = {l}
               /\ Split(l) =
                    << Split(Unwrap(CurrentResult(t)).line)[1],
                       Unwrap(Unwrap(FrontUpdate(t)).put).author,
                       Unwrap(Unwrap(FrontUpdate(t)).put).message,
                       Decimal(Unwrap(Unwrap(FrontUpdate(t)).put).likes),
                       IF IsSome(Unwrap(Unwrap(FrontUpdate(t)).put).image)
                       THEN Unwrap(Unwrap(Unwrap(FrontUpdate(t)).put).image)
                       ELSE Split(Unwrap(CurrentResult(t)).line)[5] >>
      ]_vars

\* a put without an image was applied to the line of uuid 1, whose image
\* "pic" stayed, and the run has returned
C9_Witness ==
    /\ cpc = "returned" /\ IsSome(Results) /\ IsSome(pre)
    /\ \E k \in 1..Len(Unwrap(Results)) :
          Split(Unwrap(Results)[k]) =
              << <<"1">>, <<"alice2">>, <<"hi2">>, <<"6">>, <<"pic">> >>

\* the mutations that merge on thread t has not matched to a line: those
\* in its buffer and those of the mutation files still registered
Pending(t) ==
    Range(mg[t].puts_deletes) \cup
    UNION { IF IsSome(cached[n]) /\ IsSome(Decode(Unwrap(cached[n])))
            THEN Range(Unwrap(Decode(Unwrap(cached[n])))) ELSE {}
            : n \in puts_deletes_file_numbers }
Matched(t) == Range(AllMutations) \ Pending(t)

C11_EmptyDeltaIdempotent ==
    (cpc = "returned" /\ remote.kind = "Cache" /\ IsSome(pre)
        /\ Len(AllRecords) = 0 /\ Len(AllMutations) = 0)
        => Results = pre

\* the staging record file of each page as it is on disk (no lines when
\* the file does not exist)
StagedFiles ==
    [p \in PageNumbers |-> IF IsSome(posts[p]) THEN Unwrap(posts[p]) ELSE <<>>]

FullMergePlaces ==
    {"merge_open_w", "merge_open_r", "merge_lock", "merge_loop",
     "merge_drain", "merge_rename", "merge_unlock", "merge_flush"}

\* C13: in a run of kind Cache that started without results.csv no task
\* ever enters merge: results.csv is written by the merge_posts of the
\* terminal task only, in every interleaving.
C13_FirstRunNoMerge ==
    (first_sync /\ remote.kind = "Cache")
        => \A t \in Threads : pc[t] \notin FullMergePlaces

\* C14: the coordinator sends one metadata request and then one page
\* request per page, never more and none again after a failure, and sync
\* returns only when every submitted task, with the merge it may have
\* called, has ended.
C14_CoordinatorRequestsAndJoin ==
    /\ requests.meta <= 1
    /\ requests.page <= remote.total_pages
    /\ (requests.page > 0 => requests.meta = 1)
    /\ (cpc = "returned" /\ outcome = "Ok")
          => /\ requests = [meta |-> 1, page |-> remote.total_pages]
             /\ queued = 0
             /\ \A t \in Threads : pc[t] = "idle"

\* a run of two pages on one worker has returned after two page requests
\* and a merge
C14_Witness ==
    /\ cpc = "returned" /\ outcome = "Ok"
    /\ remote.total_pages = 2 /\ num_workers = 1
    /\ requests = [meta |-> 1, page |-> 2]
    /\ merges >= 1

\* C15: when the metadata says total_pages = 0, the run sends no page
\* request, starts no task and no merge, and no step of it creates or
\* changes a file: results.csv stays what it was, absent when it was
\* absent.
C15_NoPagesNoEffect ==
    /\ [](remote.total_pages = 0
            => /\ requests.page = 0 /\ merges = 0
               /\ \A t \in Threads : pc[t] = "idle"
               /\ Results = pre
               /\ dir.merge = 0)
    /\ [][remote.total_pages = 0 => UNCHANGED disk]_vars

\* a run of no pages over a dataset, with a staging file of an earlier
\* run on disk, has returned
C15_Witness ==
    /\ cpc = "returned" /\ outcome = "Ok" /\ remote.total_pages = 0
    /\ IsSome(pre) /\ Len(Unwrap(pre)) > 0 /\ IsSome(posts[1])
    /\ Results = pre

\* C16: when a task has staged its page, the staging record file of the
\* page holds one row per record of the page, in the order received and in
\* the format uuid,author,message,likes,image, and nothing else, also when
\* a file of that name was there before the run.
C16_StagingFileIsThePage ==
    \A t \in Threads :
        pc[t] = "count"
            => posts[res[t]] = Some(Rows(remote.pages[res[t]].posts))

\* C17: a mutation whose uuid is below the key of the current old line is
\* dropped from the front of the buffer, so it never keeps a later
\* mutation from its old line: when merge has written its output, every
\* mutation of the run whose uuid is in the old dataset has been matched.
C17_AbsentUuidDropped ==
    \A t \in Threads :
      (pc[t] = "merge_rename" /\ IsSome(pre)) =>
        \A m \in Range(AllMutations) :
            m.uuid \in {Key(l) : l \in Range(Unwrap(pre))}
                => m \in Matched(t)

\* C18: when the old result lines run out before the new lines do, merge
\* writes every new line that is left: the buffered one, the rest of the
\* open record file and all lines of the record files still registered.
\* So when merge has written its output, every line of every record
\* file of the run is in the output.
C18_DrainWritesAllNewLines ==
    \A t \in Threads :
      (pc[t] = "merge_rename" /\ ~mg[t].panicking) =>
        \A p \in 1..remote.total_pages :
            Range(StagedFiles[p]) \subseteq Range(mg[t].w_buf)

\* no two lines have the same key
DistinctKeys(lines) ==
    \A j, k \in 1..Len(lines) : j # k => Key(lines[j]) # Key(lines[k])

\* C19: when an old result line and a staged record line have the same
\* uuid, merge fails instead of writing both: a Cache run never installs
\* a results.csv in which a uuid occurs twice.
C19_TieIsIntegrityViolation ==
    (remote.kind = "Cache" /\ IsSome(Results)) => DistinctKeys(Unwrap(Results))

\* the task on thread t holds the guard of a mutex of State across steps
HoldsLock(t) == lock.pages_fetched = t \/ lock.posts_file_numbers = t

\* C20: no task creates, writes or renames a file while it holds a lock
\* of State: a step of a task that holds one leaves the directory and
\* every file as they are.
C20_NoFileIOUnderLock ==
    [][ \A t \in Threads :
          (pc[t]' # pc[t] /\ HoldsLock(t)) => UNCHANGED disk ]_vars

\* the numbers of q go up
Increasing(q) == \A j, k \in 1..Len(q) : j < k => q[j] < q[k]

\* C21: merge_posts and merge take the staged record files in ascending
\* numeric order of their page numbers, in whatever order the tasks
\* registered them, from the registry of page numbers and from the
\* registry of file names alike.
C21_NewStreamPageOrder ==
    Increasing(reg.new_numbers) /\ Increasing(reg.new_names)

\* C22: the applier loads the staged mutation files in ascending order of
\* their page numbers, in whatever order the tasks that staged them ran,
\* from the registry of page numbers and from the list of arrival numbers
\* alike.
C22_PatchStreamPageOrder ==
    Increasing(reg.patch_numbers) /\ Increasing(reg.patch_cache)

\* a task at one of these places is in a loop of merge that calls
\* update_post_line_with_put_delete
ApplierPlaces == {"merge_loop", "merge_drain"}

\* the step is a step of thread t
StepOf(t) == pc'[t] # pc[t] \/ mg'[t] # mg[t]

\* the next turn of merge on thread t calls
\* update_post_line_with_put_delete
Consults(t) ==
    /\ pc[t] \in ApplierPlaces
    /\ IsSome(CurrentResult(t))
    /\ pc[t] = "merge_loop" => ~Unwrap(CurrentResult(t)).updated

\* the lines that a turn of merge on thread t can write without a patch
\* of that turn: the old lines, the staged lines, the buffered old line
Unpatched(t) ==
    Range(inodes[mg[t].r_ino])
    \cup UNION {IF IsSome(posts[p]) THEN Range(Unwrap(posts[p])) ELSE {}
                : p \in PageNumbers}
    \cup (IF IsSome(mg[t].read_result)
          THEN {Unwrap(mg[t].read_result).line} ELSE {})

\* C23: a call of the applier that finds its buffer empty and no mutation
\* file registered sets should_update_results to false; from then on, in
\* every turn of that merge, the flag stays false, the buffer and the set
\* puts_deletes_file_numbers are left alone (also when another task has
\* registered a mutation file since) and the lines written are written as
\* they were read.
C23_ExhaustedLatch ==
    [][\A t \in Threads :
         (pc[t] \in ApplierPlaces /\ StepOf(t)) =>
            /\ ( /\ mg[t].should_update_results
                 /\ Len(mg[t].puts_deletes) = 0
                 /\ puts_deletes_file_numbers = {}
                 /\ "puts_deletes_file_numbers" \notin poisoned
                 /\ Consults(t) )
               => ~mg[t].should_update_results'
            /\ ~mg[t].should_update_results =>
                 /\ ~mg[t].should_update_results'
                 /\ mg[t].puts_deletes' = mg[t].puts_deletes
                 /\ puts_deletes_file_numbers' = puts_deletes_file_numbers
                 /\ Range(mg[t].w_buf') \subseteq
                        Range(mg[t].w_buf) \cup Unpatched(t)
    ]_vars

\* the only merge of the run has loaded a mutation file, has found the set
\* empty since, and another task has registered a mutation file after that
C23_Witness ==
    \E t \in Threads :
        /\ pc[t] \in ApplierPlaces
        /\ merges = 1
        /\ ~mg[t].should_update_results
        /\ \E p \in PageNumbers :
              /\ IsSome(cached[p])
              /\ p \notin puts_deletes_file_numbers
        /\ puts_deletes_file_numbers # {}

\* the next turn of merge on thread t calls the applier with a mutation
\* in the buffer whose uuid is above the key of the old line
NotYetRelevant(t) ==
    /\ Consults(t)
    /\ mg[t].should_update_results
    /\ Len(mg[t].puts_deletes) # 0
    /\ StrLt(Key(Unwrap(CurrentResult(t)).line), Head(mg[t].puts_deletes).uuid)

\* the lines that the turn of thread t appended to final_writer
Written(t) ==
    Range(SubSeq(mg[t].w_buf', Len(mg[t].w_buf) + 1, Len(mg[t].w_buf')))

\* C24: when the first buffered mutation has a uuid above the key of the
\* old line, the call of the applier returns the buffer as it was and the
\* line as it was, not updated and not marked for deletion; the turn of
\* merge keeps the buffer and writes the line, or keeps it for the next
\* turn, as it was read.
C24_NotYetRelevantFrame ==
    [][\A t \in Threads :
         (NotYetRelevant(t) /\ StepOf(t)) =>
            /\ \E up \in {update_post_line_with_put_delete(
                              mg[t].should_update_results, mg[t].puts_deletes,
                              Unwrap(CurrentResult(t)),
                              puts_deletes_file_numbers, cached,
                              "puts_deletes_file_numbers" \in poisoned)} :
                  /\ up.puts_deletes = mg[t].puts_deletes
                  /\ up.result_line = Unwrap(CurrentResult(t))
                  /\ up.should_update_results
                  /\ up.nums = puts_deletes_file_numbers
                  /\ ~up.panic
            /\ mg[t].puts_deletes' = mg[t].puts_deletes
            /\ puts_deletes_file_numbers' = puts_deletes_file_numbers
            /\ \/ mg[t].read_result' = CurrentResult(t)
               \/ /\ ~IsSome(mg[t].read_result')
                  /\ Unwrap(CurrentResult(t)).line \in Written(t)
    ]_vars

\* merge has just written an old line, unpatched, while the first buffered
\* mutation waits for a line with a greater key
C24_Witness ==
    \E t \in Threads :
        /\ pc[t] \in ApplierPlaces
        /\ IsSome(pre)
        /\ mg[t].should_update_results
        /\ Len(mg[t].puts_deletes) # 0
        /\ Len(mg[t].w_buf) # 0
        /\ mg[t].w_buf[Len(mg[t].w_buf)] \in Range(Unwrap(pre))
        /\ StrLt(Key(mg[t].w_buf[Len(mg[t].w_buf)]),
                 Head(mg[t].puts_deletes).uuid)

\* the next turn of the merge loop on thread t has an old line and no new
\* line to compare it with: none buffered, the open cached post file at
\* its end, no cached post file registered
NewExhausted(t) ==
    /\ pc[t] = "merge_loop"
    /\ IsSome(CurrentResult(t))
    /\ ~IsSome(mg[t].read_cached_post)
    /\ Len(mg[t].cached_posts_reader) = 0
    /\ posts_file_numbers = {}

\* the old lines that results_reader of thread t has handed out
Consumed(t) == mg[t].r_pos - Len(mg[t].r_buf)

\* the uuids of the deletes that merge on thread t has matched to a line
DeletedBy(t) == {m.uuid : m \in {x \in Matched(t) : x.delete}}

\* how many lines of final_writer of thread t have the key of `line`
Copies(t, line) ==
    Cardinality({k \in 1..Len(mg[t].w_buf) : Key(mg[t].w_buf[k]) = Key(line)})

\* C25: the turn of the merge loop that finds the new stream exhausted
\* writes the current old line, and nothing else, unless a delete was
\* matched to it, and goes on to the remaining old lines; while and after
\* these are written, every old line read so far is in the output once,
\* or not at all when a delete was matched to it, and no old line beyond
\* is in the output.
C25_OldLinesAfterNewStream ==
    /\ [](\A t \in Threads :
            ( /\ pc[t] \in {"merge_drain", "merge_rename"}
              /\ IsSome(pre)
              /\ ~mg[t].panicking ) =>
                 \A j \in 1..Len(Unwrap(pre)) :
                    Copies(t, Unwrap(pre)[j]) =
                       IF /\ j <= Consumed(t)
                          /\ Key(Unwrap(pre)[j]) \notin DeletedBy(t)
                       THEN 1 ELSE 0)
    /\ [][\A t \in Threads :
            (NewExhausted(t) /\ StepOf(t) /\ ~mg[t].panicking') =>
                /\ pc[t]' = "merge_drain"
                /\ ~IsSome(mg[t].read_result')
                /\ Len(mg[t].w_buf') =
                      Len(mg[t].w_buf) +
                      (IF Key(Unwrap(CurrentResult(t)).line) \in DeletedBy(t)'
                       THEN 0 ELSE 1)
                /\ \A l \in Written(t) :
                      Key(l) = Key(Unwrap(CurrentResult(t)).line)
       ]_vars

\* merge has written a new line and after it, the new stream exhausted,
\* two old lines, and is about to rename
C25_Witness ==
    \E t \in Threads :
        /\ pc[t] = "merge_rename"
        /\ IsSome(pre)
        /\ ~mg[t].panicking
        /\ Len(mg[t].w_buf) >= 3
        /\ \E k \in 1..(Len(mg[t].w_buf) - 2) :
              /\ mg[t].w_buf[k] \in Range(Rows(AllRecords))
              /\ \A j \in (k + 1)..Len(mg[t].w_buf) :
                    Key(mg[t].w_buf[j]) \in {Key(l) : l \in Range(Unwrap(pre))}

\* the pool threads that are running a task
Active == {t \in Threads : pc[t] # "idle"}

\* C26: never more than num_workers tasks run at a time; total_pages
\* tasks are submitted, so the tasks still queued and the page requests
\* made add up to total_pages; a page request is made by a task as it
\* starts, one per task, whatever page the service answers with, and a
\* running task makes no other.
C26_BoundedWorkersOneRequestEach ==
    /\ [](Cardinality(Active) <= num_workers)
    /\ [](cpc # "start" => queued + requests.page = remote.total_pages)
    /\ [](cpc = "returned" => requests.page = remote.total_pages)
    /\ [][requests.page' # requests.page =>
            /\ requests.page' = requests.page + 1
            /\ queued' = queued - 1
            /\ \E t \in Threads :
                  /\ pc[t] = "idle" /\ pc[t]' # "idle"
                  /\ res[t]' \in (1..remote.total_pages) \ served
                  /\ \A u \in Threads \ {t} : pc[u]' = pc[u]
       ]_vars

\* two tasks for one worker: one runs, the other waits in the queue while
\* the second pool thread of the model stays idle
C26_Witness ==
    /\ num_workers = 1
    /\ remote.total_pages = 2
    /\ queued = 1
    /\ requests.page = 1
    /\ pc[1] \in ApplierPlaces \cup {"count", "write_posts"}

\* the old line that the next turn of merge on thread t takes was updated
\* in an earlier turn and kept in read_result since
WaitsUpdated(t) ==
    /\ pc[t] \in ApplierPlaces
    /\ IsSome(mg[t].read_result)
    /\ Unwrap(mg[t].read_result).updated

\* C27: a turn of merge that takes an updated line from read_result does
\* not call the applier for it: no mutation is matched, the buffer, the
\* registry and the flag stay as they are and the line goes on as it is.
\* A turn matches at most one mutation, and only to a line that was not
\* updated and has the uuid of the mutation; a line that waits updated
\* has had exactly one mutation matched to it.
C27_MatchedLineNotResubmitted ==
    /\ [](\A t \in Threads :
            WaitsUpdated(t) =>
               Cardinality({m \in Matched(t) :
                   m.uuid = Key(Unwrap(mg[t].read_result).line)}) = 1)
    /\ [][\A t \in Threads :
            (pc[t] \in ApplierPlaces /\ StepOf(t)) =>
               /\ Cardinality(Matched(t)' \ Matched(t)) <= 1
               /\ \A m \in Matched(t)' \ Matched(t) :
                     /\ IsSome(CurrentResult(t))
                     /\ ~Unwrap(CurrentResult(t)).updated
                     /\ m.uuid = Key(Unwrap(CurrentResult(t)).line)
               /\ WaitsUpdated(t) =>
                     /\ Matched(t)' = Matched(t)
                     /\ mg[t].puts_deletes' = mg[t].puts_deletes
                     /\ puts_deletes_file_numbers' = puts_deletes_file_numbers
                     /\ mg[t].should_update_results' =
                            mg[t].should_update_results
                     /\ \/ mg[t].read_result' = mg[t].read_result
                        \/ /\ ~IsSome(mg[t].read_result')
                           /\ Unwrap(mg[t].read_result).line \in Written(t)
       ]_vars

\* an old line that a put was applied to waits in read_result while the
\* applier has an empty buffer and would load or latch if it were called
C27_Witness ==
    \E t \in Threads :
        /\ WaitsUpdated(t)
        /\ mg[t].should_update_results
        /\ Len(mg[t].puts_deletes) = 0

\* What a run with one worker merges: each task stages its page before the
\* next task starts, so the last task calls merge (line 121) with the
\* record file of every page and the mutation file of every page that has
\* mutations on disk and registered.
SeqPosts ==
    [p \in PageNumbers |->
        IF p <= remote.total_pages THEN Some(Rows(remote.pages[p].posts))
        ELSE None]
SeqCached ==
    [p \in PageNumbers |->
        IF p <= remote.total_pages /\ Len(remote.pages[p].puts_deletes) # 0
        THEN Some(Encode(remote.pages[p].puts_deletes)) ELSE None]
SeqMutNumbers == {p \in PageNumbers : IsSome(SeqCached[p])}

\* lines 293-343: the locals of merge as the loop is entered, the first
\* cached post file opened
SeqEntry ==
    [NoMerge EXCEPT !.should_update_results = (SeqMutNumbers # {}),
                    !.cached_posts_reader = Unwrap(SeqPosts[1])]

\* lines 344-467 on one thread, turn by turn, over the old lines `old`:
\* the lines of final_writer at the rename, or the old lines when merge
\* panics before it
RECURSIVE SeqTurns(_, _, _)
SeqAfter(old, r, post_nums) ==
    SeqTurns(old, [r EXCEPT !.post_nums = IF r.exit = "loop" THEN @
                                           ELSE post_nums],
             r.exit)
SeqTurns(old, at, place) ==
    IF place = "loop"
    THEN SeqAfter(old, MergeIter(at.mg, old, at.nums, SeqCached, FALSE,
                                 at.post_nums, SeqPosts), at.post_nums)
    ELSE IF place = "drain"
    THEN SeqAfter(old, MergeDrain(at.mg, old, at.nums, SeqCached, FALSE),
                  at.post_nums)
    ELSE IF place = "rename" THEN at.mg.w_buf
    ELSE old

\* the dataset that the run with one worker installs over `old`
SequentialDataset(old) ==
    IF remote.total_pages = 0 THEN old
    ELSE SeqTurns(old, Turned(SeqEntry, "loop", SeqMutNumbers,
                              2..remote.total_pages, FALSE),
                  "loop")

\* C28: when a run of kind Cache over a dataset has returned, with two or
\* more workers, results.csv holds what the run with one worker on the
\* same pages installs, whatever the interleaving of the workers.
C28_SameAsSequential ==
    (/\ cpc = "returned" /\ remote.kind = "Cache" /\ IsSome(pre)
     /\ num_workers >= 2)
        => Results = Some(SequentialDataset(Unwrap(pre)))

\* C29: every run comes to the return of get_all_pagination: no task
\* waits for ever for the mutex of pages_fetched, posts_file_numbers or
\* puts_deletes_file_numbers, and pool.join() returns.
C29_RunTerminates == <>(cpc = "returned")

\* a run of kind Cache with two workers and two pages, mutations staged,
\* in which no task has panicked, has returned
C29_Witness ==
    /\ cpc = "returned"
    /\ remote.kind = "Cache"
    /\ num_workers = 2
    /\ remote.total_pages = 2
    /\ panic_count = 0
    /\ merges >= 1
    /\ \E p \in PageNumbers : IsSome(cached[p])

\* C30: a run with at least one page comes to a call of merge_posts or
\* merge, or to a task that panics; and when such a run has returned
\* without a panic, merge_posts or merge has been called, every call has
\* come to its end, and results.csv is there with merge.csv renamed.
C30_SuccessfulRunMerges ==
    /\ (cpc = "start" /\ remote.total_pages >= 1)
          ~> (merges >= 1 \/ panic_count > 0)
    /\ []((cpc = "returned" /\ remote.total_pages >= 1 /\ panic_count = 0)
            => /\ merges >= 1
               /\ \A t \in Threads : pc[t] = "idle"
               /\ dir.results # 0
               /\ dir.merge = 0)

\* a Fresh run and a Cache run over a dataset, two workers and two pages,
\* returned without a panic
C30_Witness ==
    /\ cpc = "returned"
    /\ num_workers = 2
    /\ remote.total_pages = 2
    /\ panic_count = 0
    /\ \/ remote.kind = "Fresh" /\ merges = 1
       \/ remote.kind = "Cache" /\ IsSome(pre) /\ merges = 2

\* the task of thread t is about to run merge_posts or merge
MergeBegins(t) == pc[t] \in {"mp_open", "merge_open_w"}

\* every page of the run has been handed out, no task is between the
\* registration of its page and the end of write_posts_csv, and the record
\* file of every page holds the rows of the page
RecordsStaged ==
    /\ served = 1..remote.total_pages
    /\ \A u \in Threads : pc[u] \notin {"register", "write_posts"}
    /\ \A p \in 1..remote.total_pages :
          posts[p] = Some(Rows(remote.pages[p].posts))

\* C31: when a task is about to run merge_posts or merge, every page of
\* the run is in posts_file_numbers and its record file is written in
\* full, no task being still at the registration or at the write.
C31_RecordsStagedBeforeMerge ==
    \A t \in Threads :
        MergeBegins(t) =>
            /\ RecordsStaged
            /\ posts_file_numbers = 1..remote.total_pages

\* C32: a Fresh run over a dataset that has returned leaves in results.csv
\* the lines of the staged record files of its pages, in ascending page
\* number, and nothing of what the file held before.
C32_FreshReplacesDataset ==
    (/\ cpc = "returned" /\ remote.kind = "Fresh" /\ IsSome(pre)
     /\ remote.total_pages >= 1)
        => Results = Some(Concat(StagedFiles, remote.total_pages))

\* the staged record file of page p has no line
EmptyFile(p) == p \in 1..remote.total_pages /\ Len(StagedFiles[p]) = 0

\* the last old line has a key above the key of every new record and no
\* delete is sent for it, so the old lines do not run out before the new
\* ones
OldOutlastsNew ==
    /\ IsSome(pre)
    /\ Len(Unwrap(pre)) # 0
    /\ \A l \in Range(Rows(AllRecords)) :
          StrLt(Key(l), Key(Unwrap(pre)[Len(Unwrap(pre))]))
    /\ \A m \in Range(AllMutations) :
          m.delete => m.uuid # Key(Unwrap(pre)[Len(Unwrap(pre))])

\* C33: when merge has written its output in a run where a staged record
\* file has no line, the lines of the record files of the pages after it
\* are in the output (the old lines lasting longer than the new ones, so
\* that nothing else ends the loop early).
C33_EmptyFileLosesNothing ==
    \A t \in Threads :
        (pc[t] = "merge_rename" /\ ~mg[t].panicking /\ OldOutlastsNew) =>
            \A p \in PageNumbers :
                EmptyFile(p) =>
                    \A q \in (p + 1)..remote.total_pages :
                        Range(StagedFiles[q]) \subseteq Range(mg[t].w_buf)

\* the pool threads whose task has not yet incremented pages_fetched
BeforeIncrement ==
    {t \in Threads : pc[t] \in {"register", "write_posts", "count"}}

\* the number of tasks of the run that have passed the increment: those
\* started less those still before it (a task ends before its increment
\* only when a lock it takes is poisoned, and the locks are poisoned only
\* by a panic inside a merge, which runs after the last increment)
PassedIncrement == Cardinality(served) - Cardinality(BeforeIncrement)

\* C34: pages_fetched never exceeds total_pages and is the number of tasks
\* that have passed their increment; it is total_pages exactly when all
\* total_pages tasks have; and a step changes it only by adding one, the
\* step of a task that leaves the increment with its page registered and
\* its record file written.
C34_CounterCountsStagedWorkers ==
    /\ [](pages_fetched <= remote.total_pages)
    /\ [](pages_fetched = PassedIncrement)
    /\ [](pages_fetched = remote.total_pages
            <=> /\ served = 1..remote.total_pages
                /\ BeforeIncrement = {})
    /\ [][pages_fetched' # pages_fetched =>
            /\ pages_fetched' = pages_fetched + 1
            /\ \E t \in Threads :
                  /\ pc[t] = "count" /\ pc[t]' # "count"
                  /\ res[t] \in posts_file_numbers
                  /\ posts[res[t]] = Some(Rows(remote.pages[res[t]].posts))
                  /\ \A u \in Threads \ {t} : pc[u]' = pc[u]
       ]_vars

\* two tasks have counted their pages, the second holds the counter at
\* total_pages, and a third thread's worth of work is left to nobody
C34_Witness ==
    /\ remote.total_pages = MaxPages
    /\ num_workers = MaxWorkers
    /\ pages_fetched = remote.total_pages
    /\ \E t \in Threads : pc[t] = "check"
    /\ \E t \in Threads : pc[t] = "idle"

\* the mutations of the run, in page order, have strictly ascending uuids
\* and each of them is for a line of the dataset file
AscendingAndPresent ==
    /\ IsSome(pre)
    /\ Len(AllMutations) # 0
    /\ \A k \in 1..(Len(AllMutations) - 1) :
          StrLt(AllMutations[k].uuid, AllMutations[k + 1].uuid)
    /\ \A m \in Range(AllMutations) :
          \E l \in Range(Unwrap(pre)) : Key(l) = m.uuid

\* the lines of `out` with the uuid of mutation m, but for the lines that
\* are new records of the run
OldLinesFor(out, m) ==
    { k \in 1..Len(out) : /\ Key(out[k]) = m.uuid
                          /\ out[k] \notin Range(Rows(AllRecords)) }

\* C35: when the mutations of the run, in page order, are strictly
\* ascending by uuid and each is for a line of the old dataset, and merge
\* runs with all the staging done, then at the end of merge the mutation
\* buffer and puts_deletes_file_numbers are empty, the old line of a delete
\* is not in the output, and the old line of a put is there once, with the
\* author, message and likes of the put and the image the put decides.
C35_AscendingMutationsAllApplied ==
    \A t \in Threads :
        (pc[t] = "merge_rename" /\ AscendingAndPresent) =>
            /\ mg[t].puts_deletes = <<>>
            /\ puts_deletes_file_numbers = {}
            /\ \A m \in Range(AllMutations) :
                  \A l \in Range(Unwrap(pre)) :
                      Key(l) = m.uuid =>
                          IF m.delete
                          THEN OldLinesFor(mg[t].w_buf, m) = {}
                          ELSE /\ Cardinality(OldLinesFor(mg[t].w_buf, m)) = 1
                               /\ \A k \in OldLinesFor(mg[t].w_buf, m) :
                                     mg[t].w_buf[k] = RefPut(l, Unwrap(m.put))

\* merge has applied a delete and a put of two pages to their old lines
\* and is about to rename its output
C35_Witness ==
    \E t \in Threads :
        /\ pc[t] = "merge_rename"
        /\ AscendingAndPresent
        /\ Len(AllMutations) = MaxMut
        /\ AllMutations[1].delete
        /\ ~AllMutations[MaxMut].delete
        /\ Cardinality({p \in 1..remote.total_pages :
                           Len(remote.pages[p].puts_deletes) # 0}) = 2
        /\ Len(mg[t].w_buf) >= 2

\* the task of thread t is at the head of the loop of merge, before the
\* take of read_result
AtLoopHead(t) == pc[t] = "merge_loop"

\* the task of thread t has left the loop of merge, or never entered it
PastLoop(t) == pc[t] \in {"merge_drain", "merge_rename"}

\* C36: at the head of every turn of the loop of merge read_result and
\* read_cached_post are not both Some, and a line held in read_result is
\* not marked for deletion; once the loop is left read_result is None.
C36_LookaheadBuffers ==
    \A t \in Threads :
        /\ AtLoopHead(t) =>
              /\ ~(IsSome(mg[t].read_result) /\ IsSome(mg[t].read_cached_post))
              /\ IsSome(mg[t].read_result) =>
                     ~Unwrap(mg[t].read_result).mark_for_deletion
        /\ PastLoop(t) => mg[t].read_result = None

\* a turn of the loop wrote a new record and kept for the next turn an old
\* line that a put had updated
C36_Witness ==
    \E t \in Threads :
        /\ AtLoopHead(t)
        /\ IsSome(mg[t].read_result)
        /\ Unwrap(mg[t].read_result).updated
        /\ Len(mg[t].w_buf) # 0

====
